---- MODULE Spec2Model ----
(***************************************************************************)
(* Dependency discovery of snncpp/build-tool: the directive evaluator      *)
(* (preprocessor.hh), the validator predicates (validator.hh) and the      *)
(* recursive scanner with its closure queries (snn.cc, class generator).   *)
(*                                                                         *)
(* Strings are sequences of one-character strings, so that every parsing   *)
(* step of the code (drop_front, pop_front_while, find, truncate) is       *)
(* computed on the characters as the code computes it.                     *)
(***************************************************************************)
EXTENDS Integers, Sequences, FiniteSets, TLC

VARIABLES
    fs,                   \* the file system: canonical path -> contents (sequence of lines)
    predefined_macros_,   \* generator::predefined_macros_ / preprocessor::predefined_macros_ (key set)
    compiler_include_paths_, \* generator::compiler_include_paths_ / preprocessor::include_paths_
    pp,                   \* the evaluator under test: [state_, if_statement_handled_, stack_]
    script,               \* the input fed to the evaluator under test
    fed,                  \* number of lines processed by the evaluator under test
    verdicts,             \* the verdicts returned for a scripted input, in order
    open,                 \* history: conditional blocks opened and not yet closed
    last,                 \* history: the last call of process (input, state before, result)
    home,                 \* the value of HOME, <<>> when unset
    applications_,        \* generator::applications_, in sorted order
    dependencies_,        \* generator::dependencies_: file -> [libraries, source_files, header_files]
    include_path_,        \* generator::include_path_
    run,                  \* where generator::parse is: [pc, i]
    frames,               \* the activations of parse_recursive_, innermost last
    call,                 \* a call of parse_recursive_ about to be entered: <<[file, depth]>> or <<>>
    ret,                  \* the value a call of parse_recursive_ has just returned: <<b>> or <<>>
    reads,                \* history: the files read with file::read, in order
    query,                \* the closure query in progress or last finished
    cli,                  \* the command being run by main: [pc, command, args, ...]
    validated,            \* the call of a validator predicate under test: [input, result]
    probe                 \* the reader of the compiler's output: [pc, state, output, i, ...]

ppvars == <<pp, script, fed, verdicts, open, last, validated, probe>>

envvars == <<fs, predefined_macros_, compiler_include_paths_, home>>

scanvars == <<applications_, dependencies_, include_path_, run, frames, call, ret, reads, query>>

----------------------------------------------------------------------------
(* Characters (snn-core chr::is_alpha_lower, is_alpha, is_digit, ...) *)

Lower ==
    {"a","b","c","d","e","f","g","h","i","j","k","l","m",
     "n","o","p","q","r","s","t","u","v","w","x","y","z"}

Upper ==
    {"A","B","C","D","E","F","G","H","I","J","K","L","M",
     "N","O","P","Q","R","S","T","U","V","W","X","Y","Z"}

Digit == {"0","1","2","3","4","5","6","7","8","9"}

is_alpha(c) == c \in Lower \cup Upper

is_digit(c) == c \in Digit

is_alphanumeric(c) == is_alpha(c) \/ is_digit(c)

\* preprocessor::is_space_
spaces_ == {" ", "\t"}

----------------------------------------------------------------------------
(* Ranges over characters (snn-core cstrrng) *)

\* the element of a one-element set.  only({e(x) : x \in {v}}) and \E x \in {v} : P(x)
\* name the value v once, as a local variable of the code does, so that it is computed
\* once wherever the definition is evaluated (under ENABLED too)
only(S) == CHOOSE x \in S : TRUE

has_front(s, p) == Len(s) >= Len(p) /\ SubSeq(s, 1, Len(p)) = p

has_back(s, p) == Len(s) >= Len(p) /\ SubSeq(s, Len(s) - Len(p) + 1, Len(s)) = p

drop_front_n(s, n) == SubSeq(s, n + 1, Len(s))

drop_back_n(s, n) == SubSeq(s, 1, Len(s) - n)

\* rng.drop_front(p): the range without p when it starts with p, else unchanged
drop_front(s, p) == IF has_front(s, p) THEN drop_front_n(s, Len(p)) ELSE s

\* length of the prefix rng.pop_front_while(P) removes, P accepting the characters of a set
front_while(s, chars) ==
    CHOOSE n \in 0..Len(s) :
        /\ \A i \in 1..n : s[i] \in chars
        /\ (n = Len(s) \/ s[n + 1] \notin chars)

\* length of the prefix rng.pop_front_while(fn::is{fn::not_equal_to{}, c}) removes
front_until(s, c) ==
    CHOOSE n \in 0..Len(s) :
        /\ \A i \in 1..n : s[i] # c
        /\ (n = Len(s) \/ s[n + 1] = c)

\* length of the suffix rng.pop_back_while(fn::is{fn::not_equal_to{}, c}) removes
back_until(s, c) ==
    CHOOSE n \in 0..Len(s) :
        /\ \A i \in (Len(s) - n + 1)..Len(s) : s[i] # c
        /\ (n = Len(s) \/ s[Len(s) - n] = c)

\* length of the suffix rng.pop_back_while(P) removes, P accepting the characters of a set
back_while(s, chars) ==
    CHOOSE n \in 0..Len(s) :
        /\ \A i \in (Len(s) - n + 1)..Len(s) : s[i] \in chars
        /\ (n = Len(s) \/ s[Len(s) - n] \notin chars)

\* s.find(p): the first position (0-based) where p occurs, or npos
npos == -1

find(s, p) ==
    IF \E i \in 0..(Len(s) - Len(p)) : SubSeq(s, i + 1, i + Len(p)) = p
    THEN CHOOSE i \in 0..(Len(s) - Len(p)) :
             /\ SubSeq(s, i + 1, i + Len(p)) = p
             /\ \A j \in 0..(i - 1) : SubSeq(s, j + 1, j + Len(p)) # p
    ELSE npos

----------------------------------------------------------------------------
(* validator.hh *)

base_chars == Lower \cup Upper \cup Digit \cup {".", "_", "-"}

is_base(s) ==
    \E rng \in {drop_front(s, <<".">>)} :
        IF rng # <<>> /\ is_alpha(rng[1]) /\ is_alphanumeric(rng[Len(rng)])
        THEN front_while(rng, base_chars) = Len(rng)
        ELSE FALSE

RECURSIVE drop_parents(_)
\* while (rng.drop_front("../")) {}
drop_parents(rng) ==
    IF has_front(rng, <<".", ".", "/">>)
    THEN only({drop_parents(rest) : rest \in {drop_front_n(rng, 3)}})
    ELSE rng

RECURSIVE is_components(_)
\* the while (rng) loop of is_directory
is_components(rng) ==
    IF rng = <<>> THEN TRUE
    ELSE \E n \in {front_until(rng, "/")} :
         \E rest \in {drop_front_n(rng, n)} :
             IF ~is_base(SubSeq(rng, 1, n)) THEN FALSE
             ELSE IF ~has_front(rest, <<"/">>) THEN FALSE
             ELSE \E next \in {drop_front_n(rest, 1)} : is_components(next)

is_directory(s) ==
    \E rng \in {drop_front(s, <<"/">>)} :
    \E here \in {drop_front(rng, <<".", "/">>)} :
    \E below \in {drop_parents(here)} :
        is_components(below)

is_file_path(s) ==
    \E n \in {back_until(s, "/")} :
        IF is_base(SubSeq(s, Len(s) - n + 1, Len(s)))
        THEN is_directory(SubSeq(s, 1, Len(s) - n))
        ELSE FALSE

max_library_size == 40

library_chars == Lower \cup Upper \cup Digit \cup {"_", "-", "."}

is_library(s) ==
    IF Len(s) <= max_library_size
    THEN IF s # <<>> /\ is_alpha(s[1]) /\ is_alphanumeric(s[Len(s)])
         THEN front_while(s, library_chars) = Len(s)
         ELSE FALSE
    ELSE FALSE

macro_chars == Lower \cup Upper \cup Digit \cup {"_"}

is_macro(s) ==
    IF s # <<>> /\ (is_alpha(s[1]) \/ s[1] = "_")
    THEN front_while(s, macro_chars) = Len(s)
    ELSE FALSE

----------------------------------------------------------------------------
(* The file system as the code sees it (snn-core file::is_regular, file::read) *)

RECURSIVE split(_, _)
\* string::range::split{s, c}: the pieces between the delimiters
split(s, c) ==
    only({ IF n = Len(s) THEN <<s>>
           ELSE only({ <<SubSeq(s, 1, n)>> \o split(rest, c) :
                           rest \in {drop_front_n(s, n + 1)} }) :
               n \in {front_until(s, c)} })

RECURSIVE without_dots(_)
\* the components of a path that name something: not ".", and not the empty one that a
\* doubled slash leaves (the last component is empty when the path ends with a slash)
without_dots(parts) ==
    IF parts = <<>> THEN <<>>
    ELSE only({ (IF Head(parts) = <<".">> \/ (Head(parts) = <<>> /\ rest # <<>>)
                 THEN <<>> ELSE <<Head(parts)>>) \o without_dots(rest) :
                    rest \in {Tail(parts)} })

RECURSIVE join(_)
\* the components of a path with "/" between them
join(parts) ==
    IF parts = <<>> THEN <<>>
    ELSE IF Len(parts) = 1 THEN parts[1]
    ELSE only({ parts[1] \o <<"/">> \o join(rest) : rest \in {Tail(parts)} })

\* the file a path names: a component "." names the directory it is in, slashes in a row
\* count as one, a leading slash stays
resolve(path) ==
    IF has_front(path, <<"/">>)
    THEN only({ only({ <<"/">> \o join(kept) : kept \in {without_dots(parts)} }) :
                    parts \in {split(drop_front_n(path, 1), "/")} })
    ELSE only({ only({ join(kept) : kept \in {without_dots(parts)} }) :
                    parts \in {split(path, "/")} })

is_regular(disk, path) == resolve(path) \in DOMAIN disk

----------------------------------------------------------------------------
(* preprocessor.hh *)

compile == "compile"

skip == "skip"

not_understood == "not_understood"

status == {compile, skip, not_understood}

\* has_include_ looking into the first directory only
has_include_first_only(include) ==
    compiler_include_paths_ # <<>> /\ is_regular(fs, compiler_include_paths_[1] \o include)

\* preprocessor::has_include_
has_include_(include) ==
    \E i \in 1..Len(compiler_include_paths_) :
        is_regular(fs, compiler_include_paths_[i] \o include)

\* preprocessor::is_defined_
is_defined_(macro) == macro \in predefined_macros_

negate(negation, st) ==
    IF negation THEN (IF st = compile THEN skip ELSE compile) ELSE st

\* parse_defined_ with an unknown macro reported as not understood
parse_defined_unknown_macro(negation, rng) ==
    LET n == front_until(rng, ")")
        macro == SubSeq(rng, 1, n)
        rest == drop_front_n(rng, n)
    IN  IF is_macro(macro) /\ has_front(rest, <<")">>) /\ drop_front_n(rest, 1) = <<>>
           /\ is_defined_(macro)
        THEN negate(negation, compile)
        ELSE not_understood

\* parse_defined_ without the rng.is_empty() test after the closing parenthesis
parse_defined_trailing(negation, rng) ==
    LET n == front_until(rng, ")")
        macro == SubSeq(rng, 1, n)
        rest == drop_front_n(rng, n)
    IN  IF is_macro(macro) /\ has_front(rest, <<")">>)
        THEN negate(negation, IF is_defined_(macro) THEN compile ELSE skip)
        ELSE not_understood

\* the defined( branch of parse_expression_, rng is what follows "defined("
parse_defined_(negation, rng) ==
    only({ IF is_macro(macro) /\ has_front(rest, <<")">>) /\ drop_front_n(rest, 1) = <<>>
           THEN negate(negation, IF is_defined_(macro) THEN compile ELSE skip)
           ELSE not_understood :
               macro \in {SubSeq(rng, 1, front_until(rng, ")"))},
               rest \in {drop_front_n(rng, front_until(rng, ")"))} })

\* the __has_include(< branch of parse_expression_, rng is what follows "__has_include(<"
parse_has_include_(negation, rng) ==
    only({ IF is_file_path(include) /\ has_front(rest, <<">", ")">>)
              /\ drop_front_n(rest, 2) = <<>>
           THEN negate(negation, IF has_include_(include) THEN compile ELSE skip)
           ELSE not_understood :
               include \in {SubSeq(rng, 1, front_until(rng, ">"))},
               rest \in {drop_front_n(rng, front_until(rng, ">"))} })

kw_defined == <<"d","e","f","i","n","e","d","(">>

kw_has_include == <<"_","_","h","a","s","_","i","n","c","l","u","d","e","(","<">>

\* preprocessor::parse_expression_
parse_expression_(rng0) ==
    only({ IF has_front(rng, kw_defined)
           THEN only({ parse_defined_(negation, macro) :
                           macro \in {drop_front_n(rng, Len(kw_defined))} })
           ELSE IF has_front(rng, kw_has_include)
           THEN only({ parse_has_include_(negation, include) :
                           include \in {drop_front_n(rng, Len(kw_has_include))} })
           ELSE not_understood :
               negation \in {has_front(rng0, <<"!">>)},
               rng \in {drop_front(rng0, <<"!">>)} })

\* the evaluator after construction
preprocessor_new ==
    [state_ |-> compile, if_statement_handled_ |-> FALSE, stack_ |-> <<>>]

\* process_if evaluating the expression whatever the state is
process_if_always_evaluates(p, rng) ==
    only({ [state_ |-> st, if_statement_handled_ |-> (st # skip),
            stack_ |-> Append(p.stack_, <<p.state_, p.if_statement_handled_>>)] :
               st \in {parse_expression_(rng)} })

\* token == "if"
process_if(p, rng) ==
    IF p.state_ = compile
    THEN only({ [state_ |-> st, if_statement_handled_ |-> (st # skip),
                 stack_ |-> Append(p.stack_, <<p.state_, p.if_statement_handled_>>)] :
                    st \in {parse_expression_(rng)} })
    ELSE [state_ |-> p.state_, if_statement_handled_ |-> TRUE,
          stack_ |-> Append(p.stack_, <<p.state_, p.if_statement_handled_>>)]

\* process_elif evaluating the expression whenever the state is not compile
process_elif_reevaluates(p, rng) ==
    IF p.state_ # compile
    THEN only({ [p EXCEPT !.state_ = st,
                          !.if_statement_handled_ = IF st # skip THEN TRUE ELSE @] :
                    st \in {parse_expression_(rng)} })
    ELSE [p EXCEPT !.state_ = skip]

\* token == "elif"
process_elif(p, rng) ==
    IF ~p.if_statement_handled_
    THEN only({ [p EXCEPT !.state_ = st,
                          !.if_statement_handled_ = IF st # skip THEN TRUE ELSE @] :
                    st \in {parse_expression_(rng)} })
    ELSE IF p.state_ = compile
    THEN [p EXCEPT !.state_ = skip]
    ELSE p

\* process_else without the test of if_statement_handled_
process_else_unhandled(p) ==
    IF p.state_ = compile
    THEN [p EXCEPT !.state_ = skip]
    ELSE [p EXCEPT !.state_ = compile, !.if_statement_handled_ = TRUE]

\* process_else electing its branch without setting the handled flag
process_else_open(p) ==
    IF ~p.if_statement_handled_
    THEN [p EXCEPT !.state_ = compile]
    ELSE IF p.state_ = compile
    THEN [p EXCEPT !.state_ = skip]
    ELSE p

\* token == "else"
process_else(p) ==
    IF ~p.if_statement_handled_
    THEN [p EXCEPT !.state_ = compile, !.if_statement_handled_ = TRUE]
    ELSE IF p.state_ = compile
    THEN [p EXCEPT !.state_ = skip]
    ELSE p

\* process_endif restoring the state but not the handled flag
process_endif_keeps_handled(p) ==
    IF p.stack_ # <<>>
    THEN [p EXCEPT !.state_ = p.stack_[Len(p.stack_)][1],
                   !.stack_ = drop_back_n(p.stack_, 1)]
    ELSE p

\* process_endif starting afresh when there is nothing to pop
process_endif_resets(p) ==
    IF p.stack_ # <<>>
    THEN [state_ |-> p.stack_[Len(p.stack_)][1],
          if_statement_handled_ |-> p.stack_[Len(p.stack_)][2],
          stack_ |-> drop_back_n(p.stack_, 1)]
    ELSE [state_ |-> compile, if_statement_handled_ |-> FALSE, stack_ |-> <<>>]

\* token == "endif"
process_endif(p) ==
    IF p.stack_ # <<>>
    THEN LET back == p.stack_[Len(p.stack_)]
         IN  [state_ |-> back[1], if_statement_handled_ |-> back[2],
              stack_ |-> drop_back_n(p.stack_, 1)]
    ELSE p

kw_if == <<"i","f">>

kw_elif == <<"e","l","i","f">>

kw_else == <<"e","l","s","e">>

kw_endif == <<"e","n","d","i","f">>

\* the directive token of a trimmed line and the range after it (<<>> for no directive)
directive(trimmed_line) ==
    IF has_front(trimmed_line, <<"#">>)
    THEN only({ only({ only({ [hash |-> TRUE, token |-> SubSeq(r2, 1, n),
                               rng |-> drop_front_n(r3, front_while(r3, spaces_))] :
                                  n \in {front_while(r2, Lower)},
                                  r3 \in {drop_front_n(r2, front_while(r2, Lower))} }) :
                           r2 \in {drop_front_n(r1, front_while(r1, spaces_))} }) :
                    r1 \in {drop_front_n(trimmed_line, 1)} })
    ELSE [hash |-> FALSE, token |-> <<>>, rng |-> <<>>]

\* process taking a token that begins with "if" for "if"
process_if_prefix(p, trimmed_line) ==
    only({ IF ~d.hash THEN p
           ELSE IF has_front(d.token, kw_if) THEN process_if(p, d.rng)
           ELSE IF d.token = kw_elif THEN process_elif(p, d.rng)
           ELSE IF d.token = kw_else THEN process_else(p)
           ELSE IF d.token = kw_endif THEN process_endif(p)
           ELSE p :
               d \in {directive(trimmed_line)} })

\* preprocessor::process: the evaluator after the line; the verdict returned is its state_
process(p, trimmed_line) ==
    only({ IF ~d.hash THEN p
           ELSE IF d.token = kw_if THEN process_if(p, d.rng)
           ELSE IF d.token = kw_elif THEN process_elif(p, d.rng)
           ELSE IF d.token = kw_else THEN process_else(p)
           ELSE IF d.token = kw_endif THEN process_endif(p)
           ELSE p :
               d \in {directive(trimmed_line)} })

----------------------------------------------------------------------------
(* Inputs of the evaluator under test (preprocessor.test.cc and the same   *)
(* harness fed other lines).  An input is a form; render gives its text,  *)
(* the trimmed line that process receives.                                 *)

NoExpr == [pre |-> <<>>, core |-> "none", arg |-> <<>>, tail |-> <<>>]

Expr(pre, core, arg, tail) == [pre |-> pre, core |-> core, arg |-> arg, tail |-> tail]

expr_text(e) ==
    e.pre \o
    (IF e.core = "defined" THEN kw_defined \o e.arg \o <<")">>
     ELSE IF e.core = "has_include" THEN kw_has_include \o e.arg \o <<">", ")">>
     ELSE e.arg)
    \o e.tail

\* a directive line: "#", the blanks gap, the keyword, a blank, the expression
Directive(gap, dir, e) == [dir |-> dir, gap |-> gap, e |-> e]

\* any other line, given by its text
Text(t) == [dir |-> "text", gap |-> <<>>, e |-> Expr(<<>>, "raw", t, <<>>)]

keyword(dir) ==
    CASE dir = "if" -> <<"i","f">>
      [] dir = "elif" -> <<"e","l","i","f">>
      [] dir = "else" -> <<"e","l","s","e">>
      [] dir = "endif" -> <<"e","n","d","i","f">>
      [] dir = "ifdef" -> <<"i","f","d","e","f">>
      [] dir = "ifndef" -> <<"i","f","n","d","e","f">>

render(in) ==
    IF in.dir = "text" THEN in.e.arg
    ELSE IF in.dir \in {"else", "endif"} THEN <<"#">> \o in.gap \o keyword(in.dir)
    ELSE <<"#">> \o in.gap \o keyword(in.dir) \o <<" ">> \o expr_text(in.e)

m_FreeBSD == <<"_","_","F","r","e","e","B","S","D","_","_">>

m_linux == <<"_","_","l","i","n","u","x","_","_">>

m_FOO == <<"F","O","O">>

m_BAR == <<"B","A","R">>

h_stdio == <<"s","t","d","i","o",".","h">>

d_usr_include == <<"/","u","s","r","/","i","n","c","l","u","d","e","/">>

d_usr_local_include == <<"/","u","s","r","/","l","o","c","a","l","/","i","n","c","l","u","d","e","/">>

Defined(m) == Expr(<<>>, "defined", m, <<>>)

NotDefined(m) == Expr(<<"!">>, "defined", m, <<>>)

HasInclude(h) == Expr(<<>>, "has_include", h, <<>>)

If(e) == Directive(<<>>, "if", e)

Elif(e) == Directive(<<>>, "elif", e)

Else == Directive(<<>>, "else", NoExpr)

Endif == Directive(<<>>, "endif", NoExpr)

\* preprocessor.test.cc:25-35, and the empty line the split yields after the last "\n"
S1Lines ==
    << If(Defined(m_FreeBSD)),
       If(HasInclude(h_stdio)),
       Text(<<"#","i","n","c","l","u","d","e"," ","\"","s","n","n","/","e","x","a","m","p","l","e","/","i","m","p","l","/","f","b","s","d","_","s","t","d","i","o",".","h","h","\"">>),
       Else,
       Text(<<"#","i","n","c","l","u","d","e"," ","\"","s","n","n","/","e","x","a","m","p","l","e","/","i","m","p","l","/","f","b","s","d",".","h","h","\"">>),
       Endif,
       Elif(Defined(m_linux)),
       Text(<<"#","i","n","c","l","u","d","e"," ","\"","s","n","n","/","e","x","a","m","p","l","e","/","i","m","p","l","/","l","i","n","u","x",".","h","h","\"">>),
       Else,
       Text(<<"#","i","n","c","l","u","d","e"," ","\"","s","n","n","/","e","x","a","m","p","l","e","/","i","m","p","l","/","p","o","r","t","a","b","l","e",".","h","h","\"">>),
       Endif,
       Text(<<>>) >>

\* preprocessor.test.cc:84-95
S1Expected ==
    << compile, compile, compile, skip, skip, compile,
       skip, skip, skip, skip, compile, compile >>

S2Lines == << If(Defined(m_FOO)), Else, Endif >>

S3Lines ==
    << If(Expr(<<>>, "defined", m_FOO, <<" ","&","&"," ","d","e","f","i","n","e","d","(","B","A","R",")">>)),
       Text(<<"#","i","n","c","l","u","d","e"," ","\"","x",".","h","h","\"">>) >>

Scripted(name) ==
    CASE name = "S1" -> S1Lines
      [] name = "S2" -> S2Lines
      [] name = "S3" -> S3Lines

\* expressions fed as the argument of one #if or #elif
ExprPre == { <<>>, <<"!">>, <<"!", "!">>, <<"!", " ">>, <<"(">> }

ExprTail == { <<>>, <<" ","&","&"," ","d","e","f","i","n","e","d","(","B","A","R",")">>, <<")">>, <<" ","/","/"," ","x">> }

ExprArgs ==
    ({"defined"} \X {m_FOO, m_BAR, m_FreeBSD, <<"_","x","1">>, <<"1","X">>, <<>>, <<"A"," ","B">>, <<"a","-","b">>})
    \cup ({"has_include"} \X {h_stdio, <<"s","y","s","/","t","y","p","e","s",".","h">>, <<".",".","/","x",".","h">>, <<>>, <<"s","y","s","/","/","x",".","h">>, <<"x",".","h","/">>, <<"/","s","t","d","i","o",".","h">>})
    \cup ({"raw"} \X {<<"0">>, <<"1">>, <<"F","O","O">>, <<"d","e","f","i","n","e","d"," ","F","O","O">>, <<"d","e","f","i","n","e","d"," ","(","F","O","O",")">>, <<"d","e","f","i","n","e","d","[","F","O","O","]">>,
                      <<"_","_","h","a","s","_","i","n","c","l","u","d","e","(","\"","s","t","d","i","o",".","h","\"",")">>, <<"_","_","h","a","s","_","i","n","c","l","u","d","e","(","s","t","d","i","o",".","h",")">>, <<"D","E","F","I","N","E","D","(","F","O","O",")">>})

Exprs ==
    { Expr(pre, a[1], a[2], tail) : pre \in ExprPre, a \in ExprArgs, tail \in ExprTail }

\* lines fed in any order, to any depth up to MaxLines
FreeInputs ==
    { If(Defined(m_FOO)), If(NotDefined(m_FOO)), If(HasInclude(h_stdio)),
      If(Expr(<<>>, "raw", <<"0">>, <<>>)),
      Directive(<<" ">>, "if", Defined(m_BAR)),
      Elif(Defined(m_BAR)), Elif(NotDefined(m_FOO)), Elif(Expr(<<>>, "raw", <<"1">>, <<>>)),
      Else, Endif, Directive(<<"\t">>, "endif", NoExpr),
      Directive(<<>>, "ifdef", Expr(<<>>, "raw", m_FOO, <<>>)),
      Directive(<<>>, "ifndef", Expr(<<>>, "raw", m_FOO, <<>>)),
      Text(<<"#","i","n","c","l","u","d","e"," ","\"","x",".","h","h","\"">>), Text(<<>>), Text(<<"i","n","t"," ","m","a","i","n","(",")">>),
      Text(<<"#","I","F"," ","d","e","f","i","n","e","d","(","F","O","O",")">>),
      Text(<<"#","d","e","f","i","n","e"," ","F","O","O"," ","1">>),
      Text(<<"#"," ","p","r","a","g","m","a"," ","o","n","c","e">>) }

MaxLines == 5

Scripts == {"S1", "S2", "S3", "expr", "free"}

\* the inputs the harness may feed next
NextInputs ==
    CASE script = "free" -> IF fed < MaxLines THEN FreeInputs ELSE {}
      [] script = "expr" -> IF fed = 0 THEN {If(e) : e \in Exprs} \cup {Elif(e) : e \in Exprs}
                            ELSE {}
      [] script = "stopped" -> {}
      [] OTHER -> IF fed < Len(Scripted(script)) THEN {Scripted(script)[fed + 1]} ELSE {}

\* the environments the evaluator is constructed with (preprocessor.test.cc:15-21)
NoFile == <<>>

Disk(files) == [f \in files |-> NoFile]

\* [macros, include_paths, disk]; the first is that of preprocessor.test.cc, the second the
\* empty environment
Envs ==
    { <<{m_FreeBSD}, <<d_usr_include>>, Disk({d_usr_include \o h_stdio})>>,
      <<{}, <<>>, Disk({})>>,
      <<{m_FOO}, <<d_usr_local_include, d_usr_include>>, Disk({d_usr_include \o h_stdio})>>,
      <<{m_FOO, m_BAR}, <<d_usr_include>>, Disk({d_usr_local_include \o h_stdio})>>,
      <<{m_BAR}, <<d_usr_include, d_usr_local_include>>, Disk({d_usr_local_include \o h_stdio})>>,
      <<{m_FreeBSD, m_linux}, <<d_usr_include>>, Disk({})>> }

----------------------------------------------------------------------------
(* The harness around the evaluator under test (preprocessor.test.cc:40-81) *)

NoCall == [in |-> Text(<<>>), pre |-> preprocessor_new, ret |-> compile, called |-> FALSE,
           closed |-> <<>>]

kw_include_quote == <<"#","i","n","c","l","u","d","e"," ","\"">>

kw_include_angle == <<"#","i","n","c","l","u","d","e"," ","<">>

\* every line lets the loop continue
is_skippable_always(line) == TRUE

\* the lines after which the loop continues (preprocessor.test.cc:67-78, snn.cc:908, 989)
is_skippable(line) ==
    line = <<>> \/ has_front(line, <<"#">>) \/ has_front(line, <<"/", "/">>)

\* history of the blocks opened: ifs pairs each #endif with the last open #if, counting
\* #if and #endif lines only; nest pairs it as the language does, where #ifdef and
\* #ifndef open a block that an #endif closes too; won counts, for each block of ifs, the
\* branches (#if, #elif, #else) for which the evaluator returned compile
elected(won, in, verdict) ==
    IF in.dir = "if"
    THEN Append(won, IF verdict = compile THEN 1 ELSE 0)
    ELSE IF in.dir \in {"elif", "else"} /\ won # <<>>
    THEN [won EXCEPT ![Len(won)] = IF verdict = compile THEN @ + 1 ELSE @]
    ELSE IF in.dir = "endif" /\ won # <<>>
    THEN drop_back_n(won, 1)
    ELSE won

\* the history after the line in, fed to the evaluator p, has returned the verdict
opened(o, in, p, verdict) ==
    [ifs |-> IF in.dir = "if" THEN Append(o.ifs, p)
             ELSE IF in.dir = "endif" /\ o.ifs # <<>> THEN drop_back_n(o.ifs, 1)
             ELSE o.ifs,
     nest |-> IF in.dir = "if" THEN Append(o.nest, "if")
              ELSE IF in.dir \in {"ifdef", "ifndef"} THEN Append(o.nest, "ifdef")
              ELSE IF in.dir = "endif" /\ o.nest # <<>> THEN drop_back_n(o.nest, 1)
              ELSE o.nest,
     won |-> elected(o.won, in, verdict)]

InitEnv ==
    \E env \in Envs :
        /\ predefined_macros_ = env[1]
        /\ compiler_include_paths_ = env[2]
        /\ fs = env[3]

\* no closure query yet
query_idle ==
    [status |-> "idle", kind |-> "none", root |-> <<>>, dependencies |-> <<>>,
     handled |-> <<>>, stack |-> <<>>]

\* the compiler is not being asked
probe_idle ==
    [pc |-> "idle", state |-> "maybe_define", output |-> <<>>, i |-> 0, macros |-> <<>>,
     result |-> <<>>, exit_status |-> <<>>]

\* no validator predicate is under test
validated_none == [input |-> <<>>, result |-> <<>>]

\* no command is being run: the generator is used directly
cli_idle ==
    [pc |-> "none", command |-> <<>>, options_ok |-> TRUE, f |-> <<>>, args |-> <<>>,
     pending |-> <<>>, makefile |-> <<>>, spawn_path |-> <<>>, exit_status |-> 0,
     exit |-> <<>>, steps |-> <<>>, made |-> <<>>, added |-> <<>>]

\* the generator after construction
ScanIdle ==
    /\ applications_ = <<>>
    /\ dependencies_ = <<>>
    /\ include_path_ = <<>>
    /\ run = [pc |-> "idle", i |-> 0, back |-> "idle"]
    /\ frames = <<>>
    /\ call = <<>>
    /\ ret = <<>>
    /\ reads = <<>>
    /\ query = query_idle

InitPP ==
    /\ InitEnv
    /\ cli = cli_idle
    /\ home = <<>>
    /\ ScanIdle
    /\ script \in Scripts
    /\ pp = preprocessor_new
    /\ fed = 0
    /\ verdicts = <<>>
    /\ open = [ifs |-> <<>>, nest |-> <<>>, won |-> <<>>]
    /\ last = NoCall
    /\ validated = validated_none
    /\ probe = probe_idle

\* one turn of the loop: process the line, note the verdict, stop after a line of code
Feed ==
    \E in \in NextInputs :
        LET line == render(in)
            after == process(pp, line)
        IN  /\ pp' = after
            /\ fed' = fed + 1
            /\ verdicts' = IF script = "free" THEN verdicts ELSE Append(verdicts, after.state_)
            /\ open' = opened(open, in, pp, after.state_)
            /\ last' = [in |-> in, pre |-> pp, ret |-> after.state_, called |-> TRUE,
                        closed |-> IF in.dir = "endif" /\ open.ifs # <<>>
                                   THEN <<open.ifs[Len(open.ifs)]>> ELSE <<>>]
            /\ script' = IF is_skippable(line) THEN script ELSE "stopped"
            /\ UNCHANGED <<cli, validated, probe, envvars, scanvars>>

vars ==
    <<fs, predefined_macros_, compiler_include_paths_, home, pp, script, fed, verdicts, open,
      last, applications_, dependencies_, include_path_, run, frames, call, ret, reads, query,
      cli, validated, probe>>

NextPP == Feed

SpecPP == InitPP /\ [][NextPP]_vars

----------------------------------------------------------------------------
(* Properties of the directive evaluator *)

\* the environment of scenario S1 (preprocessor.test.cc:15-19)
S1Env ==
    /\ predefined_macros_ = {m_FreeBSD}
    /\ compiler_include_paths_ = <<d_usr_include>>
    /\ is_regular(fs, d_usr_include \o h_stdio)

\* C1: in scenario S1 the verdicts returned for the twelve lines are, in order,
\* compile, compile, compile, skip, skip, compile, skip, skip, skip, skip, compile, compile
C1_ScenarioS1 ==
    (script = "S1" /\ S1Env) => verdicts = SubSeq(S1Expected, 1, fed)

C1_Witness ==
    script = "S1" /\ S1Env /\ fed = Len(S1Lines) /\ Len(verdicts) = 12

\* C2: the #endif that closes an #if (pairing #if and #endif lines by nesting) leaves the
\* state, the handled flag and the stack as they were immediately before that #if
C2_BalancedBlockRestores ==
    (last.called /\ last.in.dir = "endif" /\ last.closed # <<>>) => pp = last.closed[1]

\* an inner block that is closed inside an outer one, the #endif changing the verdict
C2_Witness ==
    /\ last.called /\ last.in.dir = "endif" /\ last.closed # <<>>
    /\ pp.stack_ # <<>>
    /\ last.pre.state_ # pp.state_
    /\ last.pre.if_statement_handled_ # pp.if_statement_handled_

\* the #if blocks that are open, an #endif closing the innermost open block of any kind
open_if_blocks == Cardinality({i \in DOMAIN open.nest : open.nest[i] = "if"})

\* C3: the stack depth equals the number of conditional blocks that are open
C3_StackDepthIsOpenBlocks ==
    Len(pp.stack_) = open_if_blocks

\* the last call evaluated the expression of its #if or #elif
Evaluated ==
    /\ last.called
    /\ \/ last.in.dir = "if" /\ last.pre.state_ = compile
       \/ last.in.dir = "elif" /\ ~last.pre.if_statement_handled_

\* C4: defined(NAME) with a NAME that is_macro accepts is compile when NAME is a key of
\* the macro environment and skip otherwise; with no macros the lines
\* #if defined(FOO), #else, #endif return skip, compile, compile
C4_Defined ==
    /\ (Evaluated /\ last.in.e.core = "defined" /\ last.in.e.pre = <<>>
            /\ last.in.e.tail = <<>> /\ is_macro(last.in.e.arg))
        => last.ret = (IF last.in.e.arg \in predefined_macros_ THEN compile ELSE skip)
    /\ (script = "S2" /\ predefined_macros_ = {})
        => verdicts = SubSeq(<<skip, compile, compile>>, 1, fed)

C4_Witness ==
    script = "S2" /\ predefined_macros_ = {} /\ fed = 3 /\ Len(verdicts) = 3

\* an expression of the grammar: an optional single "!", then defined(NAME) or
\* __has_include(<PATH>), then nothing
WellFormed(e) ==
    /\ e.pre \in {<<>>, <<"!">>}
    /\ e.tail = <<>>
    /\ \/ e.core = "defined" /\ is_macro(e.arg)
       \/ e.core = "has_include" /\ is_file_path(e.arg)

\* what the term of a well-formed expression resolves to, before negation
Holds(e) ==
    IF e.core = "defined" THEN e.arg \in predefined_macros_
    ELSE \E i \in DOMAIN compiler_include_paths_ :
             resolve(compiler_include_paths_[i] \o e.arg) \in DOMAIN fs

\* C5: an expression yields compile or skip only when it is well-formed, a leading "!"
\* swapping the two; every other expression yields not_understood
C5_ExpressionGrammar ==
    Evaluated =>
        last.ret = (IF ~WellFormed(last.in.e) THEN not_understood
                    ELSE IF Holds(last.in.e) # (last.in.e.pre = <<"!">>) THEN compile
                    ELSE skip)

C5_Witness ==
    /\ Evaluated /\ WellFormed(last.in.e) /\ last.in.e.pre = <<"!">>
    /\ last.in.e.core = "has_include" /\ last.ret = skip

----------------------------------------------------------------------------
(* snn.cc, class generator: the scanner *)

\* ascii::trim_inplace
ascii_whitespace == {" ", "\t", "\n", "\f", "\r"}

trim(s) ==
    only({ drop_back_n(t, back_while(t, ascii_whitespace)) :
               t \in {drop_front_n(s, front_while(s, ascii_whitespace))} })

Range(seq) == {seq[i] : i \in DOMAIN seq}

\* an insertion that leaves out a file that is a key of the map already
set_insert_unscanned(set, x) ==
    IF x \in Range(set) \/ x \in DOMAIN dependencies_ THEN set ELSE Append(set, x)

\* set::unsorted::insert: insertion order kept, TRUE when the element is new
set_insert(set, x) == IF x \in Range(set) THEN set ELSE Append(set, x)

\* struct dependencies
dependencies_new == [libraries |-> <<>>, source_files |-> <<>>, header_files |-> <<>>]

kw_lib == <<"[","#","l","i","b",":">>

RECURSIVE parse_library_words_lenient(_, _)
\* the loop of parse_libraries_ going on after an invalid library name
parse_library_words_lenient(words, libraries) ==
    IF words = <<>> THEN [ok |-> TRUE, libraries |-> libraries]
    ELSE only({ IF has_front(word, kw_lib) /\ has_back(word, <<"]">>)
                THEN only({ IF is_library(name)
                            THEN only({ parse_library_words_lenient(rest, more) :
                                            more \in {set_insert(libraries, name)} })
                            ELSE parse_library_words_lenient(rest, libraries) :
                                name \in {drop_back_n(drop_front_n(word, Len(kw_lib)), 1)} })
                ELSE parse_library_words_lenient(rest, libraries) :
                    word \in {Head(words)}, rest \in {Tail(words)} })

RECURSIVE parse_library_words_(_, _)
\* the loop of parse_libraries_ over the words
parse_library_words_(words, libraries) ==
    IF words = <<>> THEN [ok |-> TRUE, libraries |-> libraries]
    ELSE only({ IF has_front(word, kw_lib) /\ has_back(word, <<"]">>)
                THEN only({ IF is_library(name)
                            THEN only({ parse_library_words_(rest, more) :
                                            more \in {set_insert(libraries, name)} })
                            ELSE [ok |-> FALSE, libraries |-> libraries] :
                                name \in {drop_back_n(drop_front_n(word, Len(kw_lib)), 1)} })
                ELSE parse_library_words_(rest, libraries) :
                    word \in {Head(words)}, rest \in {Tail(words)} })

\* generator::parse_libraries_
parse_libraries_(line, libraries) ==
    only({ IF pos # npos
           THEN only({ only({ parse_library_words_(words, libraries) :
                                  words \in {split(rest, " ")} }) :
                           rest \in {drop_front_n(line, pos)} })
           ELSE [ok |-> TRUE, libraries |-> libraries] :
               pos \in {find(line, <<"[">>)} })

\* file::path::is_absolute
is_absolute(file) == has_front(file, <<"/">>)

max_levels == 10

RECURSIVE detect_parents_(_, _, _)
\* the do-while loop of detect_include_path_ over the parent directories
detect_parents_(file, path, levels) ==
    IF is_regular(fs, path \o file) THEN [ok |-> TRUE, include_path_ |-> path]
    ELSE IF levels + 1 < max_levels
    THEN only({ detect_parents_(file, parent, above) :
                    parent \in {path \o <<".", ".", "/">>}, above \in {levels + 1} })
    ELSE [ok |-> FALSE, include_path_ |-> path \o <<".", ".", "/">>]

\* file::path::join(home, "project/cpp/")
home_project(h) ==
    (IF has_back(h, <<"/">>) THEN h ELSE h \o <<"/">>) \o <<"p","r","o","j","e","c","t","/","c","p","p","/">>

\* generator::detect_include_path_: whether a root was found, and include_path_ afterwards
detect_include_path_(file, old, h) ==
    IF is_absolute(file) THEN [ok |-> FALSE, include_path_ |-> old]
    ELSE IF is_regular(fs, <<".", "/">> \o file)
    THEN [ok |-> TRUE, include_path_ |-> <<".", "/">>]
    ELSE only({ IF up.ok THEN up
                ELSE IF h # <<>>
                THEN only({ [ok |-> is_file_path(candidate) /\ is_regular(fs, candidate),
                             include_path_ |-> home_project(h)] :
                                candidate \in {home_project(h) \o file} })
                ELSE [ok |-> FALSE, include_path_ |-> <<>>] :
                    up \in {detect_parents_(file, <<".", ".", "/">>, 1)} })

\* the include root probed at every quoted include, decided or not
include_root_reprobed(file, old, h) == detect_include_path_(file, old, h)

\* if (include_path_.is_empty()) detect_include_path_(line): the root is probed while none
\* is decided (snn.cc:939-947)
include_root(file, old, h) ==
    IF old = <<>> THEN detect_include_path_(file, old, h)
    ELSE [ok |-> TRUE, include_path_ |-> old]

max_depth == 128

kw_hh_quote == <<".","h","h","\"">>

\* the scan entered again although the key is in the map
already_parsed_ignored(file) == FALSE

\* any key in the map passes for the key of the file
already_parsed_nonempty(file) == dependencies_ # <<>>

\* a key counts only while its file can be read
already_parsed_readable(file) ==
    file \in DOMAIN dependencies_ /\ is_regular(fs, file) /\ fs[resolve(file)] # <<>>

\* the key is in the map: insert_inplace did not insert (snn.cc:871-876)
already_parsed(file) == file \in DOMAIN dependencies_

\* dependencies_ with a fresh record under a new key
map_insert(map, file) ==
    [k \in DOMAIN map \cup {file} |-> IF k \in DOMAIN map THEN map[k] ELSE dependencies_new]

\* file::read(file, contents) && contents
readable(file) == is_regular(fs, file) /\ fs[resolve(file)] # <<>>

frame_new(file, depth) ==
    [file |-> file, depth |-> depth, i |-> 1, preprocessor |-> preprocessor_new,
     pc |-> "line", file_next |-> <<>>]

Top == frames[Len(frames)]

\* the innermost activation returns b
Return(b) ==
    /\ frames' = drop_back_n(frames, 1)
    /\ ret' = <<b>>

\* the innermost activation goes on with its next line
Continue(p) ==
    /\ frames' = [frames EXCEPT ![Len(frames)] =
                      [@ EXCEPT !.i = @ + 1, !.pc = "line", !.preprocessor = p]]
    /\ ret' = <<>>

\* the limit itself is refused as well
too_deep_at_limit(depth) == depth >= max_depth

\* if (depth > max_depth): "Maximum recursion depth exceeded" (snn.cc:865)
too_deep(depth) == depth > max_depth

\* parse_recursive_ from its entry to the construction of the evaluator (snn.cc:864-889)
Enter ==
    /\ call # <<>>
    /\ call' = <<>>
    /\ LET file == call[1].file
           depth == call[1].depth
       IN  IF too_deep(depth)
           THEN /\ ret' = <<FALSE>>
                /\ UNCHANGED <<dependencies_, reads, frames>>
           ELSE IF already_parsed(file)
           THEN /\ ret' = <<TRUE>>
                /\ UNCHANGED <<dependencies_, reads, frames>>
           ELSE /\ dependencies_' = map_insert(dependencies_, file)
                /\ reads' = Append(reads, file)
                /\ IF readable(file)
                   THEN /\ frames' = Append(frames, frame_new(file, depth))
                        /\ ret' = <<>>
                   ELSE /\ frames' = frames
                        /\ ret' = <<FALSE>>
    /\ UNCHANGED <<cli, envvars, ppvars, applications_, include_path_, run, query>>

\* the path of a quoted include line after "#include \"", up to and with ".hh" (snn.cc:926-931)
quoted_path(line) ==
    only({ only({ IF pos = npos THEN <<>> ELSE SubSeq(rest, 1, pos + 3) :
                      pos \in {find(rest, kw_hh_quote)} }) :
               rest \in {drop_front_n(line, Len(kw_include_quote))} })

\* twin dropping ".hh", the dot with it
twin_without_dot(file_next) == drop_back_n(file_next, 3) \o <<"c", "c">>

\* file_next.drop_back_n(2); file_next.append("cc") (snn.cc:961-962)
twin(file_next) == drop_back_n(file_next, 2) \o <<"c", "c">>

\* only a skipped line is passed over
is_dormant_skip_only(state) == state = skip

\* the verdicts under which a line is passed over: status != compile (snn.cc:896)
is_dormant(state) == state # compile

\* one turn of the loop over the lines, up to a nested call or the end of the turn
\* (snn.cc:892-954, 977-995)
ScanLine ==
    /\ call = <<>> /\ ret = <<>> /\ frames # <<>> /\ Top.pc = "line"
    /\ \E f \in {Top} :
       \E contents \in {fs[resolve(f.file)]} :
           IF f.i > Len(contents)
           THEN Return(TRUE) /\ UNCHANGED <<dependencies_, include_path_, call>>
           ELSE
           \E line \in {trim(contents[f.i])} :
           \E p \in {process(f.preprocessor, line)} :
           \E deps \in {dependencies_[f.file]} :
           \E libs \in {parse_libraries_(line, deps.libraries)} :
               IF is_dormant(p.state_)
               THEN /\ IF is_skippable(line) THEN Continue(p) ELSE Return(TRUE)
                    /\ UNCHANGED <<dependencies_, include_path_, call>>
               ELSE IF has_front(line, kw_include_quote)
               THEN \E path \in {quoted_path(line)} :
                    \E root \in {IF is_file_path(path)
                                 THEN include_root(path, include_path_, home)
                                 ELSE [ok |-> TRUE, include_path_ |-> include_path_]} :
                    \E file_next \in {root.include_path_ \o path} :
                    IF ~libs.ok
                    THEN /\ dependencies_' = [dependencies_ EXCEPT
                                                 ![f.file].libraries = libs.libraries]
                         /\ Return(FALSE)
                         /\ UNCHANGED <<include_path_, call>>
                    ELSE IF path = <<>>
                    THEN /\ dependencies_' = [dependencies_ EXCEPT
                                                 ![f.file].libraries = libs.libraries]
                         /\ Continue(p)
                         /\ UNCHANGED <<include_path_, call>>
                    ELSE IF ~is_file_path(path)
                    THEN /\ dependencies_' = [dependencies_ EXCEPT
                                                 ![f.file].libraries = libs.libraries]
                         /\ Return(FALSE)
                         /\ UNCHANGED <<include_path_, call>>
                    ELSE IF ~root.ok
                    THEN /\ dependencies_' = [dependencies_ EXCEPT
                                                 ![f.file].libraries = libs.libraries]
                         /\ include_path_' = root.include_path_
                         /\ Return(FALSE)
                         /\ call' = call
                    ELSE /\ include_path_' = root.include_path_
                         /\ dependencies_' = [dependencies_ EXCEPT
                                ![f.file].libraries = libs.libraries,
                                ![f.file].header_files = set_insert(@, file_next)]
                         /\ IF file_next \notin Range(deps.header_files)
                            THEN /\ call' = <<[file |-> file_next, depth |-> f.depth + 1]>>
                                 /\ frames' = [frames EXCEPT ![Len(frames)] =
                                       [@ EXCEPT !.pc = "after_header", !.preprocessor = p,
                                                 !.file_next = file_next]]
                                 /\ ret' = <<>>
                            ELSE Continue(p) /\ call' = call
               ELSE IF has_front(line, kw_include_angle)
               THEN /\ dependencies_' = [dependencies_ EXCEPT
                                            ![f.file].libraries = libs.libraries]
                    /\ IF libs.ok THEN Continue(p) ELSE Return(FALSE)
                    /\ UNCHANGED <<include_path_, call>>
               ELSE /\ IF is_skippable(line) THEN Continue(p) ELSE Return(TRUE)
                    /\ UNCHANGED <<dependencies_, include_path_, call>>
    /\ UNCHANGED <<cli, envvars, ppvars, applications_, run, reads, query>>

\* the nested scan of the header has returned: its twin source (snn.cc:954-966)
AfterHeader ==
    /\ ret # <<>> /\ frames # <<>> /\ Top.pc = "after_header"
    /\ \E f \in {Top} :
       \E file_next \in {twin(f.file_next)} :
       \E deps \in {dependencies_[f.file]} :
           IF ~ret[1]
           THEN Return(FALSE) /\ UNCHANGED <<dependencies_, call>>
           ELSE IF file_next \notin Range(deps.source_files) /\ is_regular(fs, file_next)
           THEN /\ dependencies_' = [dependencies_ EXCEPT
                                        ![f.file].source_files = set_insert(@, file_next)]
                /\ call' = <<[file |-> file_next, depth |-> f.depth + 1]>>
                /\ frames' = [frames EXCEPT ![Len(frames)] =
                                  [@ EXCEPT !.pc = "after_twin", !.file_next = file_next]]
                /\ ret' = <<>>
           ELSE Continue(f.preprocessor) /\ UNCHANGED <<dependencies_, call>>
    /\ UNCHANGED <<cli, envvars, ppvars, applications_, include_path_, run, reads, query>>

\* the nested scan of the twin source has returned (snn.cc:967-977)
AfterTwin ==
    /\ ret # <<>> /\ frames # <<>> /\ Top.pc = "after_twin"
    /\ IF ret[1] THEN Continue(Top.preprocessor) ELSE Return(FALSE)
    /\ UNCHANGED <<cli, envvars, ppvars, applications_, dependencies_, include_path_, run,
                   call, reads, query>>

\* generator::parse: the call for the first application, or success with none (snn.cc:455-471)
Parse ==
    /\ run.pc = "idle"
    /\ IF applications_ = <<>>
       THEN run' = [run EXCEPT !.pc = "parsed"] /\ call' = call
       ELSE /\ run' = [run EXCEPT !.pc = "parsing", !.i = 1]
            /\ call' = <<[file |-> applications_[1], depth |-> 0]>>
    /\ UNCHANGED <<cli, envvars, ppvars, applications_, dependencies_, include_path_, frames,
                   ret, reads, query>>

\* generator::parse: a call has returned; fail, go on with the next application, or succeed
ParseReturn ==
    /\ run.pc = "parsing" /\ ret # <<>> /\ frames = <<>>
    /\ ret' = <<>>
    /\ IF ~ret[1]
       THEN run' = [run EXCEPT !.pc = "failed"] /\ call' = call
       ELSE IF run.i < Len(applications_)
       THEN /\ run' = [run EXCEPT !.i = @ + 1]
            /\ call' = <<[file |-> applications_[run.i + 1], depth |-> 0]>>
       ELSE run' = [run EXCEPT !.pc = "parsed"] /\ call' = call
    /\ UNCHANGED <<cli, envvars, ppvars, applications_, dependencies_, include_path_, frames,
                   reads, query>>

----------------------------------------------------------------------------
(* snn.cc, class generator: the closure queries *)

MaxQueryDepth == 12

\* header_dependencies_recursive_: the test made for a header file (snn.cc:792)
header_visit(qs, x) ==
    [dependencies |-> set_insert(qs.dependencies, x), handled |-> qs.handled,
     recurse |-> x \notin Range(qs.dependencies)]

\* library_visit without the handled set: every file is walked again
library_visit_unguarded(qs, x) ==
    [dependencies |-> qs.dependencies, handled |-> qs.handled, recurse |-> TRUE]

\* library_visit with the returned set taken for the handled set, as the header query does
library_visit_one_set(qs, x) ==
    [dependencies |-> set_insert(qs.dependencies, x), handled |-> qs.handled,
     recurse |-> x \notin Range(qs.dependencies)]

\* library_dependencies_recursive_: the test made for a source or header file (snn.cc:819, 827)
library_visit(qs, x) ==
    [dependencies |-> qs.dependencies, handled |-> set_insert(qs.handled, x),
     recurse |-> x \notin Range(qs.handled)]

\* source_dependencies_recursive_: the test made for a source file (snn.cc:1103)
source_visit_source(qs, x) ==
    [dependencies |-> set_insert(qs.dependencies, x), handled |-> qs.handled,
     recurse |-> x \notin Range(qs.dependencies)]

\* source_visit_header with the returned set taken for the handled set
source_visit_header_one_set(qs, x) ==
    [dependencies |-> set_insert(qs.dependencies, x), handled |-> qs.handled,
     recurse |-> x \notin Range(qs.dependencies)]

\* source_dependencies_recursive_: the test made for a header file (snn.cc:1111)
source_visit_header(qs, x) ==
    [dependencies |-> qs.dependencies, handled |-> set_insert(qs.handled, x),
     recurse |-> x \notin Range(qs.handled)]

visit(qs, loop, x) ==
    CASE qs.kind = "header" -> header_visit(qs, x)
      [] qs.kind = "library" -> library_visit(qs, x)
      [] qs.kind = "source" /\ loop = "src" -> source_visit_source(qs, x)
      [] qs.kind = "source" /\ loop = "hdr" -> source_visit_header(qs, x)

RECURSIVE insert_all(_, _)
\* for (library : file_deps.libraries) dependencies.insert(library) (snn.cc:812-815)
insert_all(set, xs) ==
    IF xs = <<>> THEN set ELSE insert_all(set_insert(set, Head(xs)), Tail(xs))

\* query_enter where the header query walks the source files of a file as well
query_enter_sources_too(qs, file) ==
    IF file \notin DOMAIN dependencies_
    THEN [qs EXCEPT !.status = "threw"]
    ELSE IF Len(qs.stack) >= MaxQueryDepth
    THEN [qs EXCEPT !.status = "overflow"]
    ELSE [qs EXCEPT
             !.stack = Append(@, [file |-> file, loop |-> "src", i |-> 1]),
             !.dependencies = IF qs.kind = "library"
                              THEN insert_all(@, dependencies_[file].libraries) ELSE @]

\* the entry of a ..._recursive_ function for file: dependencies_.get(file).value() throws
\* when the key is missing; the library query takes the libraries of the file first
query_enter(qs, file) ==
    IF file \notin DOMAIN dependencies_
    THEN [qs EXCEPT !.status = "threw"]
    ELSE IF Len(qs.stack) >= MaxQueryDepth
    THEN [qs EXCEPT !.status = "overflow"]
    ELSE [qs EXCEPT
             !.stack = Append(@, [file |-> file,
                                  loop |-> IF qs.kind = "header" THEN "hdr" ELSE "src",
                                  i |-> 1]),
             !.dependencies = IF qs.kind = "library"
                              THEN insert_all(@, dependencies_[file].libraries) ELSE @]

\* header_dependencies_, library_dependencies_, source_dependencies_: up to the first
\* turn of a loop (snn.cc:779-783, 799-804, 1087-1093)
query_start(kind, file) ==
    query_enter([status |-> "running", kind |-> kind, root |-> file,
                 dependencies |-> IF kind = "source" THEN <<file>> ELSE <<>>,
                 handled |-> <<>>, stack |-> <<>>],
                file)

\* one turn of a loop of the innermost ..._recursive_ activation, or its return
query_step(qs) ==
    LET top == qs.stack[Len(qs.stack)]
        file_deps == dependencies_[top.file]
        list == IF top.loop = "src" THEN file_deps.source_files ELSE file_deps.header_files
    IN  IF top.i > Len(list)
        THEN IF top.loop = "src"
             THEN [qs EXCEPT !.stack[Len(qs.stack)].loop = "hdr",
                             !.stack[Len(qs.stack)].i = 1]
             ELSE [qs EXCEPT !.stack = drop_back_n(@, 1),
                             !.status = IF Len(qs.stack) = 1 THEN "done" ELSE @]
        ELSE LET x == list[top.i]
                 v == visit(qs, top.loop, x)
                 moved == [qs EXCEPT !.stack[Len(qs.stack)].i = @ + 1,
                                     !.dependencies = v.dependencies,
                                     !.handled = v.handled]
             IN  IF v.recurse THEN query_enter(moved, x) ELSE moved

QueryKinds == {"header", "library", "source"}

\* generate and dependency_list_ ask for the closures once parse has succeeded
\* (snn.cc:235, 242, 669)
QueryStart ==
    /\ run.pc = "parsed" /\ query.status # "running"
    /\ \E kind \in QueryKinds, file \in DOMAIN dependencies_ :
           query' = query_start(kind, file)
    /\ UNCHANGED <<cli, envvars, ppvars, applications_, dependencies_, include_path_, run,
                   frames, call, ret, reads>>

QueryStep ==
    /\ query.status = "running"
    /\ query' = query_step(query)
    /\ UNCHANGED <<cli, envvars, ppvars, applications_, dependencies_, include_path_, run,
                   frames, call, ret, reads>>

----------------------------------------------------------------------------
(* The projects scanned: files on disk, applications, macros *)

L_comment == <<"/","/"," ","C","o","p","y","r","i","g","h","t">>

L_pragma == <<"#","p","r","a","g","m","a"," ","o","n","c","e">>

L_blank == <<>>

L_code == <<"i","n","t"," ","m","a","i","n","(",")"," ","{"," ","}">>

L_inc_a == <<"#","i","n","c","l","u","d","e"," ","\"","a",".","h","h","\"">>

L_inc_b == <<"#","i","n","c","l","u","d","e"," ","\"","b",".","h","h","\"">>

L_inc_dot_b == <<"#","i","n","c","l","u","d","e"," ","\"",".","/","b",".","h","h","\"">>

L_inc_a_libs == <<"#","i","n","c","l","u","d","e"," ","\"","a",".","h","h","\""," ","/","/"," ","[","#","l","i","b",":","z","]"," ","[","#","l","i","b",":","p","t","h","r","e","a","d","]">>

L_inc_b_indented == <<" "," ","#","i","n","c","l","u","d","e"," ","\"","b",".","h","h","\""," ","/","/"," ","[","#","l","i","b",":","d","l","]">> \o <<"\r">>

L_inc_table == <<"#","i","n","c","l","u","d","e"," ","\"","t","a","b","l","e",".","i","n","c","\""," ","/","/"," ","[","#","l","i","b",":","m","]">>

L_sys_zlib == <<"#","i","n","c","l","u","d","e"," ","<","z","l","i","b",".","h",">"," ","/","/"," ","[","#","l","i","b",":","z","]">>

L_sys_pthread == <<"#","i","n","c","l","u","d","e"," ","<","p","t","h","r","e","a","d",".","h",">"," ","/","/"," ","[","#","l","i","b",":","p","t","h","r","e","a","d","]"," ","[","#","l","i","b",":","r","t","]">>

L_sys_mixed == <<"#","i","n","c","l","u","d","e"," ","<","x",".","h",">"," ","/","/"," ","[","#","l","i","b",":","z","]"," ","[","#","l","i","b",":","1","b","a","d","]"," ","[","#","l","i","b",":","m","]">>

L_inc_a_bad == <<"#","i","n","c","l","u","d","e"," ","\"","a",".","h","h","\""," ","/","/"," ","[","#","l","i","b",":","1","b","a","d","]">>

L_sys_ignored == <<"#","i","n","c","l","u","d","e"," ","<","x",".","h",">"," ","/","/"," ","[","x","]"," ","[","#","l","i","b",":","z","]",","," "," ","[","l","i","b",":","y","]"," ","[","#","l","i","b",":","d","l","]">>

L_if_FOO == <<"#","i","f"," ","d","e","f","i","n","e","d","(","F","O","O",")">>

L_else == <<"#","e","l","s","e">>

L_if_0 == <<"#","i","f"," ","0">>

L_inc_minus == <<"#","i","n","c","l","u","d","e"," ","\"","-","a",".","h","h","\"">>

L_inc_c == <<"#","i","n","c","l","u","d","e"," ","\"","c",".","h","h","\"">>

L_endif == <<"#","e","n","d","i","f">>

f_app == <<"a","p","p",".","c","c">>

f_tool == <<"t","o","o","l",".","c","c">>

f_a_hh == <<"a",".","h","h">>

f_b_hh == <<"b",".","h","h">>

f_a_cc == <<"a",".","c","c">>

f_b_cc == <<"b",".","c","c">>

d_parent == <<".",".","/">>

AppContents ==
    { <<L_comment, L_inc_a, L_blank, L_code, L_inc_b>>,
      <<L_inc_a_libs, L_inc_b, L_code>>,
      <<L_if_FOO, L_inc_a, L_else, L_inc_b, L_endif, L_sys_zlib, L_code>> }

AHeaderContents ==
    { <<L_pragma>>,
      <<L_pragma, L_inc_table, L_inc_b>>,
      <<L_pragma, L_inc_a, L_inc_b_indented>> }

BHeaderContents ==
    { <<L_pragma, L_blank>>,
      <<L_pragma, L_inc_a, L_sys_zlib>>,
      <<>> }

\* applications with library notes that are invalid or of another form
LibraryApps ==
    { <<L_sys_mixed, L_inc_a, L_code>>,
      <<L_inc_a_bad, L_code>>,
      <<L_sys_ignored, L_inc_a, L_code>> }

\* applications with code or includes inside a conditional block whose expression is
\* false, or is not of the form the evaluator understands
DormantApps ==
    { <<L_if_FOO, L_code, L_else, L_inc_a, L_endif, L_inc_b>>,
      <<L_if_0, L_code, L_endif, L_inc_a, L_sys_zlib>>,
      <<L_if_0, L_inc_a_libs, L_sys_zlib, L_endif, L_inc_b, L_code>>,
      <<L_if_FOO, L_inc_a_libs, L_sys_pthread, L_endif, L_inc_b, L_code>> }

\* applications that include a path that is no file path, and a header that is not there
FailingApps ==
    { <<L_inc_a, L_inc_minus, L_inc_b, L_code>>,
      <<L_inc_a, L_inc_c, L_inc_b, L_code>> }

\* a twin source is there or not: no contents, or one
ATwinContents ==
    { {}, {<<L_inc_a, L_code>>}, {<<L_inc_b, L_inc_a, L_sys_pthread, L_code>>} }

BTwinContents ==
    { {}, {<<L_inc_b_indented, L_code>>} }

ToolContents == { <<L_inc_b, L_inc_a, L_code>> }

\* the file system holding the given <<path, contents>> pairs
Files(pairs) ==
    [path \in {x[1] : x \in pairs} |-> (CHOOSE x \in pairs : x[1] = path)[2]]

\* [dir: where the headers are, seen from the current directory; the contents of the
\* files; tool: the second application, if any; macros]
Project(dir, app, a, b, atwin, btwin, tool, macros) ==
    [fs |-> Files({<<f_app, app>>, <<dir \o f_a_hh, a>>, <<dir \o f_b_hh, b>>}
                  \cup {<<dir \o f_a_cc, c>> : c \in atwin}
                  \cup {<<dir \o f_b_cc, c>> : c \in btwin}
                  \cup {<<f_tool, c>> : c \in tool}),
     applications |-> IF tool = {} THEN <<f_app>> ELSE <<f_app, f_tool>>,
     macros |-> macros]

Projects ==
    { Project(<<>>, app, a, b, atwin, btwin, {}, {}) :
          app \in AppContents, a \in AHeaderContents, b \in BHeaderContents,
          atwin \in ATwinContents, btwin \in BTwinContents }
    \cup
    { Project(dir, app, <<L_pragma, L_inc_table, L_inc_b>>, <<L_pragma, L_inc_a, L_sys_zlib>>,
              {<<L_inc_b, L_inc_a, L_sys_pthread, L_code>>}, btwin, ToolContents, macros) :
          dir \in {<<>>, d_parent}, app \in AppContents, btwin \in BTwinContents,
          macros \in {{}, {m_FOO}} }
    \cup
    { Project(dir, <<L_inc_a, L_inc_dot_b, L_code>>, <<L_pragma>>, <<L_pragma, L_blank>>,
              {}, btwin, {}, {}) :
          dir \in {<<>>, d_parent}, btwin \in BTwinContents }
    \cup
    { Project(<<>>, app, <<L_pragma>>, <<L_pragma, L_blank>>, {}, {}, {}, {}) :
          app \in LibraryApps \cup FailingApps }
    \cup
    { Project(<<>>, app, <<L_pragma, L_sys_pthread>>, <<L_pragma, L_blank>>, {}, btwin, {},
              macros) :
          app \in DormantApps, btwin \in BTwinContents, macros \in {{}, {m_FOO}} }

RECURSIVE parents(_)
\* n levels of "../"
parents(n) == IF n = 0 THEN <<>> ELSE <<".", ".", "/">> \o parents(n - 1)

d_home == <<"/","h">>

d_home_slash == <<"/","h","/">>

d_home_digit == <<"/","1">>

\* one application that includes a.hh, the headers in the directory dir
Plain(dir) ==
    Project(dir, <<L_inc_a, L_inc_b, L_code>>, <<L_pragma>>, <<L_pragma, L_blank>>,
            {}, {}, {}, {})

\* the files of both projects
Both(p, q) == [p EXCEPT !.fs = q.fs @@ p.fs]

\* headers far above the current directory, or at more than one place
DeepProjects ==
    { Plain(parents(n)) : n \in {max_levels - 1, max_levels} }
    \cup { Both(Plain(<<>>), Plain(d_parent)),
           Both(Plain(d_parent), Plain(parents(max_levels - 1))),
           Both(Plain(parents(2)), Plain(home_project(d_home))),
           Both(Project(d_parent, <<L_inc_a, L_code>>, <<L_pragma>>, <<L_pragma, L_blank>>,
                        {}, {}, ToolContents, {}),
                [Plain(<<>>) EXCEPT !.fs = Files({<<f_b_hh, <<L_pragma>>>>})]) }

\* headers under HOME/project/cpp/
HomeProjects ==
    { Plain(home_project(d_home)), Plain(home_project(d_home_digit)) }

Homes == {<<>>, d_home, d_home_slash, d_home_digit}

\* a project and the value of HOME
Worlds ==
    [project : Projects, home : {<<>>}]
    \cup [project : DeepProjects \cup HomeProjects, home : Homes]

\* the evaluator under test is not used by the scanner
PPIdle ==
    /\ pp = preprocessor_new
    /\ script = "stopped"
    /\ fed = 0
    /\ verdicts = <<>>
    /\ open = [ifs |-> <<>>, nest |-> <<>>, won |-> <<>>]
    /\ last = NoCall

\* the generator with its applications added and the compiler's defaults fetched
InitScan ==
    /\ PPIdle
    /\ validated = validated_none
    /\ probe = probe_idle
    /\ cli = cli_idle
    /\ \E world \in Worlds :
           /\ fs = world.project.fs
           /\ applications_ = world.project.applications
           /\ predefined_macros_ = world.project.macros
           /\ home = world.home
    /\ compiler_include_paths_ = <<d_usr_include>>
    /\ dependencies_ = <<>>
    /\ include_path_ = <<>>
    /\ run = [pc |-> "idle", i |-> 0, back |-> "idle"]
    /\ frames = <<>>
    /\ call = <<>>
    /\ ret = <<>>
    /\ reads = <<>>
    /\ query = query_idle

AgainDepths == {0, 1, max_depth, max_depth + 1}

\* a further call parse_recursive_(file, depth): for a file that is a key of the map, or
\* deeper than max_depth for any file
Again ==
    /\ run.pc \in {"parsed", "failed"} /\ query.status = "idle"
    /\ \E file \in DOMAIN dependencies_ \cup DOMAIN fs, depth \in AgainDepths :
           /\ file \in DOMAIN dependencies_ \/ depth > max_depth
           /\ call' = <<[file |-> file, depth |-> depth]>>
    /\ run' = [run EXCEPT !.pc = "again", !.back = run.pc]
    /\ UNCHANGED <<cli, envvars, ppvars, applications_, dependencies_, include_path_, frames,
                   ret, reads, query>>

AgainReturn ==
    /\ run.pc = "again" /\ ret # <<>> /\ frames = <<>>
    /\ run' = [run EXCEPT !.pc = run.back]
    /\ ret' = <<>>
    /\ UNCHANGED <<cli, envvars, ppvars, applications_, dependencies_, include_path_, frames,
                   call, reads, query>>

ScanStep ==
    Parse \/ Enter \/ ScanLine \/ AfterHeader \/ AfterTwin \/ ParseReturn \/ AgainReturn

NextScan == ScanStep \/ Again \/ QueryStart \/ QueryStep

SpecScan == InitScan /\ [][NextScan]_vars

\* the program is sequential: a scan or a query that has begun keeps taking its steps
FairScan == SpecScan /\ WF_vars(ScanStep) /\ WF_vars(QueryStep)

----------------------------------------------------------------------------
(* Properties of the scanner and of the closure queries *)

\* C6: a second call parse_recursive_(F, d), one for a file F that is a key of the map or
\* with d above max_depth, leaves the dependency map as it was and reads no file
C6_ParseRecursiveIdempotent ==
    [][(call # <<>> /\ (call[1].file \in DOMAIN dependencies_ \/ call[1].depth > max_depth))
           => (dependencies_' = dependencies_ /\ reads' = reads)]_vars

\* a second call, made after the scan, has returned; the file's record is not empty
C6_Witness ==
    /\ run.pc = "again" /\ run.back = "parsed" /\ ret = <<TRUE>>
    /\ \E file \in DOMAIN dependencies_ :
           dependencies_[file].header_files # <<>> /\ dependencies_[file].libraries # <<>>

\* the contents hold a quoted include of the header
includes(contents, header) ==
    \E i \in DOMAIN contents :
        has_front(trim(contents[i]), kw_include_quote \o header \o <<"\"">>)

\* headers a.hh and b.hh include each other, in the directory dir
CyclicIn(dir) ==
    /\ {dir \o f_a_hh, dir \o f_b_hh} \subseteq DOMAIN fs
    /\ includes(fs[dir \o f_a_hh], f_b_hh)
    /\ includes(fs[dir \o f_b_hh], f_a_hh)

Cyclic == CyclicIn(<<>>) \/ CyclicIn(d_parent)

NoDuplicates(seq) == \A i, j \in DOMAIN seq : seq[i] = seq[j] => i = j

\* C7: with headers that include each other the scan ends with success; A and B are then
\* keys of the map, every key was read once and no file twice; no key is ever removed
C7_CyclicScan ==
    /\ Cyclic => <>(run.pc = "parsed")
    /\ [](Cyclic => NoDuplicates([i \in DOMAIN reads |-> resolve(reads[i])]))
    /\ [](Cyclic /\ run.pc = "parsed" =>
             /\ {include_path_ \o f_a_hh, include_path_ \o f_b_hh} \subseteq DOMAIN dependencies_
             /\ Range(reads) = DOMAIN dependencies_)
    /\ [][DOMAIN dependencies_ \subseteq DOMAIN dependencies_']_vars

C7_Witness ==
    /\ Cyclic /\ run.pc = "parsed"
    /\ include_path_ \o f_a_hh \in Range(dependencies_[include_path_ \o f_b_hh].header_files)
    /\ include_path_ \o f_b_hh \in Range(dependencies_[include_path_ \o f_a_hh].header_files)

\* C8: every closure query that has begun ends
C8_QueriesTerminate ==
    (query.status = "running") ~> (query.status = "done")

\* the files a key's record names
Edges(file) ==
    Range(dependencies_[file].source_files) \cup Range(dependencies_[file].header_files)

RECURSIVE Reach(_)
\* the files reachable from a set of files along source-file and header-file edges
Reach(files) ==
    LET more == files \cup UNION {Edges(f) : f \in files \cap DOMAIN dependencies_}
    IN  IF more = files THEN files ELSE Reach(more)

SelfEdge == \E f \in DOMAIN dependencies_ : f \in Range(dependencies_[f].source_files)

\* a library query has ended on a graph with a cycle through its root and a self-edge
C8_Witness ==
    /\ query.status = "done" /\ query.kind = "library"
    /\ SelfEdge
    /\ query.root \in UNION {Edges(f) : f \in Reach({query.root}) \cap DOMAIN dependencies_}

\* C9: source_dependencies(app) is app together with exactly the source files recorded
\* by app or by a file reachable from app
C9_SourceDependencies ==
    (query.status = "done" /\ query.kind = "source" /\ query.root \in Range(applications_))
        => Range(query.dependencies) =
               {query.root}
               \cup UNION {Range(dependencies_[f].source_files) :
                               f \in Reach({query.root}) \cap DOMAIN dependencies_}

\* a source reached only through headers, and a header met twice
C9_Witness ==
    /\ query.status = "done" /\ query.kind = "source" /\ query.root \in Range(applications_)
    /\ Len(query.dependencies) >= 3
    /\ \E s \in Range(query.dependencies) :
           s # query.root /\ s \notin Range(dependencies_[query.root].source_files)

\* C10: library_dependencies(F) holds the libraries recorded on F, and is the union of
\* the libraries of F and of the files reachable from F
C10_LibraryDependencies ==
    (query.status = "done" /\ query.kind = "library")
        => /\ Range(dependencies_[query.root].libraries) \subseteq Range(query.dependencies)
           /\ Range(query.dependencies) =
                  UNION {Range(dependencies_[f].libraries) :
                             f \in Reach({query.root}) \cap DOMAIN dependencies_}

\* libraries that come from other files only
C10_Witness ==
    /\ query.status = "done" /\ query.kind = "library"
    /\ dependencies_[query.root].libraries # <<>>
    /\ Len(query.dependencies) > Len(dependencies_[query.root].libraries) + 1


\* the headers a key's record names
HeaderEdges(file) == Range(dependencies_[file].header_files)

RECURSIVE HeaderReach(_)
\* the files reachable from the headers given along header-file edges only
HeaderReach(files) ==
    LET more == files \cup UNION {HeaderEdges(f) : f \in files \cap DOMAIN dependencies_}
    IN  IF more = files THEN files ELSE HeaderReach(more)

\* C11: header_dependencies(F) is exactly the set of headers reachable from F along
\* header-file edges only
C11_HeaderDependencies ==
    (query.status = "done" /\ query.kind = "header")
        => Range(query.dependencies) = HeaderReach(HeaderEdges(query.root))

\* a header that only a twin source of the root's headers includes is not returned
C11_Witness ==
    /\ query.status = "done" /\ query.kind = "header"
    /\ query.dependencies # <<>>
    /\ \E h \in Reach({query.root}) :
           /\ has_back(h, <<".", "h", "h">>)
           /\ h # query.root
           /\ h \notin Range(query.dependencies)


\* every header of the record of file has its twin source scanned, if there is one on disk
TwinsScanned(deps, file) ==
    \A h \in Range(deps[file].header_files) :
        \/ ~is_regular(fs, drop_back_n(h, 2) \o <<"c", "c">>)
        \/ drop_back_n(h, 2) \o <<"c", "c">> \in DOMAIN deps

\* the innermost scan returns success in this step
ScanSucceeds == frames # <<>> /\ frames' = drop_back_n(frames, 1) /\ ret' = <<TRUE>>

\* C12: when the scan of a file F returns success, and for every key once parse has
\* succeeded, each header in F's header set has a twin that is no regular file or is a key
C12_TwinsAreKeys ==
    /\ [][ScanSucceeds => TwinsScanned(dependencies_', Top.file)]_vars
    /\ [](run.pc = "parsed" => \A f \in DOMAIN dependencies_ : TwinsScanned(dependencies_, f))

\* a scan has returned success inside a run; a header of a key has its twin on disk and
\* another has none
C12_Witness ==
    /\ run.pc = "parsing" /\ ret = <<TRUE>>
    /\ \E f \in DOMAIN dependencies_ :
           /\ f \notin {frames[i].file : i \in DOMAIN frames}
           /\ \E h \in Range(dependencies_[f].header_files) :
                  /\ is_regular(fs, drop_back_n(h, 2) \o <<"c", "c">>)
                  /\ drop_back_n(h, 2) \o <<"c", "c">> \in DOMAIN dependencies_
           /\ \E h \in Range(dependencies_[f].header_files) :
                  ~is_regular(fs, drop_back_n(h, 2) \o <<"c", "c">>)


\* C13: every path recorded in a header set satisfies is_file_path, the include root
\* prepended
C13_HeaderPathsValid ==
    \A f \in DOMAIN dependencies_ :
        \A h \in Range(dependencies_[f].header_files) : is_file_path(h)


\* the quoted paths of the include lines of a file
QuotedPaths(contents) ==
    { quoted_path(trim(contents[i])) :
          i \in {j \in DOMAIN contents : has_front(trim(contents[j]), kw_include_quote)} }

NoHeaderRecorded ==
    \A f \in DOMAIN dependencies_ : dependencies_[f].header_files = <<>>

\* C14: the include root is decided before any header is recorded; once decided it never
\* changes; every header path recorded, in any file of any application, is the root
\* followed by a quoted path of that file
C14_OneIncludeRoot ==
    /\ [][include_path_ # <<>> => include_path_' = include_path_]_vars
    /\ [][(include_path_ = <<>> /\ include_path_' # <<>>) => NoHeaderRecorded]_vars
    /\ [](\A f \in DOMAIN dependencies_ :
              \A h \in Range(dependencies_[f].header_files) :
                  \E path \in QuotedPaths(fs[resolve(f)]) : h = include_path_ \o path)

\* two applications scanned, a header that exists under the current directory too recorded
\* under the root decided before
C14_Witness ==
    /\ run.pc = "parsed"
    /\ include_path_ = d_parent
    /\ \E f \in DOMAIN dependencies_ :
           \E h \in Range(dependencies_[f].header_files) :
               /\ h = d_parent \o f_b_hh
               /\ is_regular(fs, <<".", "/">> \o f_b_hh)
    /\ \E f \in DOMAIN dependencies_ : f \notin {f_app} /\ f \in Range(applications_)


\* the roots of the probe in their order: "./", then n levels of "../"
ProbeRoot(n) == IF n = 0 THEN <<".", "/">> ELSE parents(n)

\* the levels, up to ten, at which the path names a regular file
ProbeHits(path) == {n \in 0..max_levels : is_regular(fs, ProbeRoot(n) \o path)}

\* the line the innermost scan is at, trimmed
CurrentLine == trim(fs[resolve(Top.file)][Top.i])

\* the next step probes the include root for the path of a live quoted include
Probing ==
    /\ call = <<>> /\ ret = <<>> /\ frames # <<>> /\ Top.pc = "line"
    /\ include_path_ = <<>>
    /\ Top.i <= Len(fs[resolve(Top.file)])
    /\ process(Top.preprocessor, CurrentLine).state_ = compile
    /\ has_front(CurrentLine, kw_include_quote)
    /\ parse_libraries_(CurrentLine, dependencies_[Top.file].libraries).ok
    /\ is_file_path(quoted_path(CurrentLine))
    /\ ~is_absolute(quoted_path(CurrentLine))

\* C15: the probe takes the first of "./" and one to ten levels of "../" under which the
\* path names a regular file
C15_ProbeOrder ==
    [][(Probing /\ ProbeHits(quoted_path(CurrentLine)) # {})
           => include_path_' =
                  ProbeRoot(CHOOSE n \in ProbeHits(quoted_path(CurrentLine)) :
                                \A k \in ProbeHits(quoted_path(CurrentLine)) : n <= k)]_vars


\* the space-delimited tokens of a line from its first "[" on
Tokens(line) ==
    IF find(line, <<"[">>) = npos THEN {}
    ELSE Range(split(drop_front_n(line, find(line, <<"[">>)), " "))

\* the NAME of every token of the form [#lib:NAME]
LibraryNames(line) ==
    { SubSeq(t, Len(kw_lib) + 1, Len(t) - 1) :
          t \in {w \in Tokens(line) : has_front(w, kw_lib) /\ has_back(w, <<"]">>)} }

\* the next step scans a live #include line, quoted or angled
ScanningInclude ==
    /\ call = <<>> /\ ret = <<>> /\ frames # <<>> /\ Top.pc = "line"
    /\ Top.i <= Len(fs[resolve(Top.file)])
    /\ process(Top.preprocessor, CurrentLine).state_ = compile
    /\ has_front(CurrentLine, kw_include_quote) \/ has_front(CurrentLine, kw_include_angle)

\* C16: on a live #include line the valid names of the [#lib:NAME] tokens, and nothing
\* else, are added to the library set of the file; an invalid NAME makes the scan of the
\* file return failure
C16_LibraryNotes ==
    [][ScanningInclude =>
          IF \A name \in LibraryNames(CurrentLine) : is_library(name)
          THEN Range(dependencies_'[Top.file].libraries)
                   = Range(dependencies_[Top.file].libraries) \cup LibraryNames(CurrentLine)
          ELSE /\ ret' = <<FALSE>> /\ frames' = drop_back_n(frames, 1)
               /\ Range(dependencies_'[Top.file].libraries)
                      \subseteq Range(dependencies_[Top.file].libraries)
                                \cup LibraryNames(CurrentLine)]_vars

\* the line with [#lib:z] [#lib:pthread] has given the libraries z and pthread
C16_Witness ==
    /\ frames # <<>> /\ Top.i = 2 /\ Top.pc = "line" /\ call = <<>> /\ ret = <<>>
    /\ fs[resolve(Top.file)][1] = L_inc_a_libs
    /\ dependencies_[Top.file].libraries = << <<"z">>, <<"p","t","h","r","e","a","d">> >>

----------------------------------------------------------------------------
(* snn.cc: generator::add_application and validator::is_reserved_target *)

\* the characters of paths in the order of their codes
char_order ==
    <<"-", ".", "/", "0","1","2","3","4","5","6","7","8","9",
      "A","B","C","D","E","F","G","H","I","J","K","L","M",
      "N","O","P","Q","R","S","T","U","V","W","X","Y","Z", "_",
      "a","b","c","d","e","f","g","h","i","j","k","l","m",
      "n","o","p","q","r","s","t","u","v","w","x","y","z">>

code(c) == CHOOSE i \in DOMAIN char_order : char_order[i] = c

\* a < b for strings, as the sorted set of applications compares its elements
string_less(a, b) ==
    \E i \in 1..Len(b) :
        /\ \A j \in 1..(i - 1) : j <= Len(a) /\ a[j] = b[j]
        /\ (i > Len(a) \/ code(a[i]) < code(b[i]))

\* an insertion that keeps a second copy of an element
sorted_insert_again(set, x) ==
    only({ [inserted |-> TRUE,
            set |-> SubSeq(set, 1, n) \o <<x>> \o SubSeq(set, n + 1, Len(set))]
          : n \in {Cardinality({i \in DOMAIN set : string_less(set[i], x)})} })

\* applications_.insert(path): the set in sorted order, and whether path was new
sorted_insert(set, x) ==
    IF x \in Range(set)
    THEN [inserted |-> FALSE, set |-> set]
    ELSE only({ [inserted |-> TRUE,
                 set |-> SubSeq(set, 1, n) \o <<x>> \o SubSeq(set, n + 1, Len(set))]
               : n \in {Cardinality({i \in DOMAIN set : string_less(set[i], x)})} })

\* position of the extension's dot in a file name, 0 when it has none: the last dot that
\* is not the first character
ext_dot(name) ==
    IF \E i \in 2..Len(name) : name[i] = "."
    THEN CHOOSE i \in 2..Len(name) : name[i] = "." /\ \A j \in (i + 1)..Len(name) : name[j] # "."
    ELSE 0

\* file::path::split(path): the directory with its last slash, the name without the
\* extension, the extension with its dot
path_split(path) ==
    only({ only({ only({ [dir |-> SubSeq(path, 1, Len(path) - n),
                          base |-> IF dot = 0 THEN name ELSE SubSeq(name, 1, dot - 1),
                          ext |-> IF dot = 0 THEN <<>> ELSE SubSeq(name, dot, Len(name))]
                        : dot \in {ext_dot(name)} })
                 : name \in {SubSeq(path, Len(path) - n + 1, Len(path))} })
          : n \in {back_until(path, "/")} })

reserved_targets ==
    { <<"a","l","l">>, <<"r","u","n">>, <<"c","l","e","a","n">>, <<"c","l","e","a","n","-","e","x","e","c","u","t","a","b","l","e","s">>, <<"c","l","e","a","n","-","o","b","j","e","c","t","-","f","i","l","e","s">>, <<"d","e","s","t","r","u","c","t">>,
      <<"m","i","n","i","m","i","z","e","-","c","o","r","p","u","s">>, <<"c","o","m","p","r","e","s","s","-","c","o","r","p","u","s">> }

\* the rule without the names under "./"
is_reserved_target_bare(dir, base) == dir = <<>> /\ base \in reserved_targets

\* the rule without the names of the fuzzer targets
is_reserved_target_general(dir, base) ==
    /\ dir = <<>> \/ dir = <<".", "/">>
    /\ base \in reserved_targets \ { <<"m","i","n","i","m","i","z","e","-","c","o","r","p","u","s">>, <<"c","o","m","p","r","e","s","s","-","c","o","r","p","u","s">> }

\* validator::is_reserved_target
is_reserved_target(dir, base) ==
    (dir = <<>> \/ dir = <<".", "/">>) /\ base \in reserved_targets

kw_cc == <<".", "c", "c">>

kw_ignore == <<".", "i", "g", "n", "o", "r", "e">>

\* the outcome of add_application: the value returned, the message printed, the set after
added(ok, message, set) == [ok |-> ok, message |-> message, applications_ |-> set]

\* the last two steps of add_application: the ".ignore" marker and the insertion
add_checked(apps, disk, path) ==
    IF is_regular(disk, path \o kw_ignore)
    THEN added(TRUE, "Warning: Ignoring application source file", apps)
    ELSE only({ IF r.inserted
                THEN added(TRUE, "", r.set)
                ELSE added(FALSE, "Error: Duplicate application source file", apps)
               : r \in {sorted_insert(apps, path)} })

\* generator::add_application(path)
add_application(apps, disk, path) ==
    only({ IF p.ext # kw_cc
           THEN added(FALSE, "Error: Path must have .cc extension", apps)
           ELSE IF ~is_base(p.base)
           THEN added(FALSE, "Error: Unsupported character in basename", apps)
           ELSE IF ~is_directory(p.dir)
           THEN added(FALSE, "Error: Unsupported character in path", apps)
           ELSE IF has_front(p.dir, <<"/">>)
           THEN added(FALSE, "Error: Path must be relative", apps)
           ELSE IF is_reserved_target(p.dir, p.base)
           THEN added(FALSE, "Error: Reserved target", apps)
           ELSE IF has_front(path, <<".">>) /\ find(path, <<"/">>) = npos
           THEN added(FALSE, "Error: A path starting with a dot must include a slash", apps)
           ELSE add_checked(apps, disk, path)
         : p \in {path_split(path)} })

----------------------------------------------------------------------------
(* snn.cc: main and the commands build, gen, run and runall *)

exit_success == 0

exit_failure == 1

MaxExitStatus == 2

\* the exit statuses a child process can end with
ExitStatuses == 0..MaxExitStatus

\* how a spawned process ends: with an exit status, abnormally, or never started
SpawnOutcomes ==
    [how : {"exited"}, exit_status : ExitStatuses]
    \cup [how : {"abnormal", "not executed"}, exit_status : {exit_failure}]

\* app::spawn: the exit status of the child, or failure
spawn(outcome) == IF outcome.how = "exited" THEN outcome.exit_status ELSE exit_failure

\* no path names anything
is_something_never(disk, path) == FALSE

\* file::is_something(path): a file, or a directory holding one
is_something(disk, path) ==
    \E p \in {resolve(path)} :
        p \in DOMAIN disk \/ \E f \in DOMAIN disk : has_front(f, p \o <<"/">>)

\* the names app::temporary_makefile_name can draw
TemporaryNames == { <<"t","m","p","-","0","0","0","0","0","0","2","a",".","m","k">>, <<"t","m","p","-","9","f","3","c","1","1","d","0",".","m","k">> }

f_makefile == <<"m","a","k","e","f","i","l","e">>

kw_depend == <<".","d","e","p","e","n","d">>

\* the first words of the text generator::generate writes
mk_text == << <<"C","C"," ","="," ">> >>

\* what setup_compiler_and_macros can end with
SetupOutcomes ==
    { "", "Error: Invalid compiler", "Error: config not found",
      "Error: Could not get predefined macros and include paths from compiler",
      "Error: Invalid macro" }

\* the predefined macros a compiler may report
ProbeMacros == { {}, {m_FOO} }

commands == { <<"b","u","i","l","d">>, <<"g","e","n">>, <<"r","u","n">>, <<"r","u","n","a","l","l">> }

temporary_commands == { <<"b","u","i","l","d">>, <<"r","u","n">>, <<"r","u","n","a","l","l">> }

\* a step of the command and whether it succeeded
logged(c, name, ok) == [c EXCEPT !.steps = Append(@, [step |-> name, ok |-> ok])]

\* the command returns the exit code
returned(c, exit_code) == [c EXCEPT !.pc = "returned", !.exit = <<exit_code>>]

\* main: the command is chosen; without one, or with an unknown one, the usage is printed
Main ==
    /\ cli.pc = "main"
    /\ cli' = IF cli.command \in commands
              THEN [cli EXCEPT !.pc = "options"]
              ELSE returned(logged(cli, "command", FALSE), exit_failure)
    /\ UNCHANGED <<envvars, ppvars, scanvars>>

\* the options are parsed; a command without arguments prints its usage
Options ==
    /\ cli.pc = "options"
    /\ cli' = IF ~cli.options_ok
              THEN returned(logged(cli, "options", FALSE), exit_failure)
              ELSE IF Len(cli.args) >= 1
              THEN [logged(cli, "options", TRUE) EXCEPT !.pc = "makefile"]
              ELSE returned(logged(cli, "arguments", FALSE), exit_failure)
    /\ UNCHANGED <<envvars, ppvars, scanvars>>

\* the name of the build script: a new temporary name, or for gen the option's value,
\* which must be a file path that names nothing yet
Makefile ==
    /\ cli.pc = "makefile"
    /\ IF cli.command = <<"g","e","n">>
       THEN \E makefile \in {IF cli.f = <<>> THEN f_makefile ELSE cli.f[1]} :
                cli' = IF ~is_file_path(makefile)
                       THEN returned(logged(cli, "makefile name", FALSE), exit_failure)
                       ELSE IF is_something(fs, makefile)
                       THEN returned(logged(cli, "makefile exists", FALSE), exit_failure)
                       ELSE [cli EXCEPT !.pc = "setup", !.makefile = makefile]
       ELSE \E name \in TemporaryNames :
                /\ ~is_something(fs, name)
                /\ cli' = [cli EXCEPT !.pc = "setup", !.makefile = name]
    /\ UNCHANGED <<envvars, ppvars, scanvars>>

\* generator::setup_compiler_and_macros: the compiler is validated, its config found,
\* its predefined macros and include paths fetched, the macros of the option added
Setup ==
    /\ cli.pc = "setup"
    /\ \E outcome \in SetupOutcomes :
           IF outcome = ""
           THEN /\ cli' = [logged(cli, "setup", TRUE) EXCEPT
                               !.pc = "add",
                               !.pending = IF cli.command = <<"r","u","n">> THEN <<cli.args[1]>>
                                           ELSE cli.args,
                               !.spawn_path = IF cli.command = <<"r","u","n">>
                                              THEN <<".", "/">> \o drop_back_n(cli.args[1], 3)
                                              ELSE <<>>]
                /\ \E macros \in ProbeMacros : predefined_macros_' = macros
                /\ compiler_include_paths_' = <<d_usr_include>>
           ELSE /\ cli' = returned(logged(cli, outcome, FALSE), exit_failure)
                /\ UNCHANGED <<predefined_macros_, compiler_include_paths_>>
    /\ UNCHANGED <<fs, home, ppvars, scanvars>>

\* the next application is added; with none left the set must not be empty
AddApplication ==
    /\ cli.pc = "add"
    /\ IF cli.pending # <<>>
       THEN \E path \in {Head(cli.pending)} :
            \E r \in {add_application(applications_, fs, path)} :
                /\ applications_' = r.applications_
                /\ \E c \in {[logged(cli, "add_application", r.ok) EXCEPT
                                 !.pending = Tail(@),
                                 !.added = <<[path |-> path, ok |-> r.ok,
                                              message |-> r.message,
                                              before |-> applications_]>>]} :
                       cli' = IF r.ok THEN c ELSE returned(c, exit_failure)
       ELSE /\ cli' = IF applications_ = <<>>
                      THEN returned(logged(cli, "applications", FALSE), exit_failure)
                      ELSE [cli EXCEPT !.pc = "parse"]
            /\ UNCHANGED applications_
    /\ UNCHANGED <<envvars, ppvars, dependencies_, include_path_, run, frames, call, ret,
                   reads, query>>

\* generator::parse, by the steps of the scanner
Scan ==
    /\ cli.pc = "parse"
    /\ Parse \/ Enter \/ ScanLine \/ AfterHeader \/ AfterTwin \/ ParseReturn

\* generator::parse has returned
Parsed ==
    /\ cli.pc = "parse" /\ run.pc \in {"parsed", "failed"}
    /\ cli' = IF run.pc = "parsed"
              THEN [logged(cli, "parse", TRUE) EXCEPT !.pc = "generate"]
              ELSE returned(logged(cli, "parse", FALSE), exit_failure)
    /\ UNCHANGED <<envvars, ppvars, scanvars>>

\* file::write(path, text): the file system with the file written
written(disk, path, text) ==
    only({ [f \in DOMAIN disk \cup {p} |-> IF f = p THEN text ELSE disk[f]]
         : p \in {resolve(path)} })

\* file::remove(path): the file system without the file
removed(disk, path) ==
    only({ [f \in DOMAIN disk \ {p} |-> disk[f]] : p \in {resolve(path)} })

\* generator::generate(makefile, makefile_depend): the build script is created, and fails
\* to be when the name is taken; the dependency list is written when it has a name
Generate ==
    /\ cli.pc = "generate"
    /\ \E depend \in {IF cli.command = <<"g","e","n">> THEN cli.makefile \o kw_depend ELSE <<>>} :
       \E created \in IF applications_ = <<>> \/ is_something(fs, cli.makefile)
                      THEN {FALSE} ELSE BOOLEAN :
       \E listed \in IF created /\ depend # <<>> THEN BOOLEAN ELSE {created} :
           /\ fs' = IF ~created THEN fs
                    ELSE IF depend # <<>> /\ listed
                    THEN written(written(fs, cli.makefile, mk_text), depend, <<>>)
                    ELSE written(fs, cli.makefile, mk_text)
           /\ cli' = IF ~listed
                     THEN returned(logged(cli, "generate", FALSE), exit_failure)
                     ELSE IF cli.command = <<"g","e","n">>
                     THEN returned(logged(cli, "generate", TRUE), exit_success)
                     ELSE [logged(cli, "generate", TRUE) EXCEPT !.pc = "make clean"]
    /\ UNCHANGED <<predefined_macros_, compiler_include_paths_, home, ppvars, scanvars>>

\* app::make(makefile, "clean"): the exit status is dropped
MakeClean ==
    /\ cli.pc = "make clean"
    /\ \E outcome \in SpawnOutcomes :
           cli' = [logged(cli, "make clean", spawn(outcome) = exit_success) EXCEPT
                       !.made = Append(@, <<"c","l","e","a","n">>),
                       !.pc = "make target"]
    /\ UNCHANGED <<envvars, ppvars, scanvars>>

\* the target that builds: "run" for runall, "all" otherwise
target(command) == IF command = <<"r","u","n","a","l","l">> THEN <<"r","u","n">> ELSE <<"a","l","l">>

\* after the target the command goes straight to its return when make has failed
after_target_returns(command, exit_status) ==
    IF exit_status # exit_success THEN "return"
    ELSE IF command = <<"r","u","n">> THEN "spawn" ELSE "make after"

\* what follows the target: run spawns the executable when make has succeeded
after_target(command, exit_status) ==
    IF command = <<"r","u","n">> /\ exit_status = exit_success THEN "spawn" ELSE "make after"

\* app::make(makefile, target): its exit status is the command's
MakeTarget ==
    /\ cli.pc = "make target"
    /\ \E outcome \in SpawnOutcomes :
       \E exit_status \in {spawn(outcome)} :
           cli' = [logged(cli, "make target", exit_status = exit_success) EXCEPT
                       !.made = Append(@, target(cli.command)),
                       !.exit_status = exit_status,
                       !.pc = after_target(cli.command, exit_status)]
    /\ UNCHANGED <<envvars, ppvars, scanvars>>

\* app::spawn(spawn_path, arguments): the executable's exit status is the command's
Spawn ==
    /\ cli.pc = "spawn"
    /\ \E outcome \in SpawnOutcomes :
       \E exit_status \in {spawn(outcome)} :
           cli' = [logged(cli, "spawn", exit_status = exit_success) EXCEPT
                       !.exit_status = exit_status,
                       !.pc = "make after"]
    /\ UNCHANGED <<envvars, ppvars, scanvars>>

\* the target made last: "clean-object-files" for build, "clean" otherwise
target_after(command) == IF command = <<"b","u","i","l","d">> THEN <<"c","l","e","a","n","-","o","b","j","e","c","t","-","f","i","l","e","s">> ELSE <<"c","l","e","a","n">>

\* app::make(makefile, "clean-object-files" or "clean"): the exit status is dropped
MakeAfter ==
    /\ cli.pc = "make after"
    /\ \E outcome \in SpawnOutcomes :
           cli' = [logged(cli, "make after", spawn(outcome) = exit_success) EXCEPT
                       !.made = Append(@, target_after(cli.command)),
                       !.pc = "remove"]
    /\ UNCHANGED <<envvars, ppvars, scanvars>>

\* file::remove(makefile)
Remove ==
    /\ cli.pc = "remove"
    /\ fs' = removed(fs, cli.makefile)
    /\ cli' = [cli EXCEPT !.pc = "return"]
    /\ UNCHANGED <<predefined_macros_, compiler_include_paths_, home, ppvars, scanvars>>

\* return exit_status
ReturnStatus ==
    /\ cli.pc = "return"
    /\ cli' = returned(cli, cli.exit_status)
    /\ UNCHANGED <<envvars, ppvars, scanvars>>

----------------------------------------------------------------------------
(* Command lines and the projects they are run in *)

f_sub_all == <<"s","u","b","/","a","l","l",".","c","c">>

f_RUN == <<"R","U","N",".","c","c">>

f_cleaning == <<"c","l","e","a","n","i","n","g",".","c","c">>

f_all == <<"a","l","l",".","c","c">>

f_dot_all == <<".","/","a","l","l",".","c","c">>

\* applications that include nothing, one of them marked to be ignored, and a file that
\* is in the way of the default makefile of gen
Singles ==
    [fs |-> Files({<<f_app, <<L_code>>>>, <<f_sub_all, <<L_code>>>>, <<f_RUN, <<L_code>>>>,
                   <<f_cleaning, <<L_code>>>>, <<f_all, <<L_code>>>>,
                   <<f_tool, <<L_code>>>>, <<f_tool \o kw_ignore, <<>>>>,
                   <<f_makefile, <<L_comment>>>>}),
     applications |-> <<>>, macros |-> {}]

DriverProjects ==
    { Project(dir, app, <<L_pragma, L_inc_table, L_inc_b>>, <<L_pragma, L_inc_a, L_sys_zlib>>,
              {<<L_inc_b, L_inc_a, L_sys_pthread, L_code>>}, {}, ToolContents, {}) :
          dir \in {<<>>, d_parent}, app \in AppContents }
    \cup { Project(<<>>, <<L_inc_a_bad, L_code>>, <<L_pragma>>, <<L_pragma, L_blank>>,
                   {}, {}, {}, {}),
           Singles }

\* paths given as applications: valid ones, reserved targets, and one for each of the
\* other rules of add_application
ArgPaths ==
    { f_app, f_tool, f_sub_all, f_RUN, f_cleaning, f_all, f_dot_all,
      <<"r","u","n",".","c","c">>, <<".","/","c","l","e","a","n",".","c","c">>, <<"c","l","e","a","n","-","e","x","e","c","u","t","a","b","l","e","s",".","c","c">>, <<".","/","c","l","e","a","n","-","o","b","j","e","c","t","-","f","i","l","e","s",".","c","c">>,
      <<"d","e","s","t","r","u","c","t",".","c","c">>, <<".","/","m","i","n","i","m","i","z","e","-","c","o","r","p","u","s",".","c","c">>, <<"c","o","m","p","r","e","s","s","-","c","o","r","p","u","s",".","c","c">>,
      <<".","/","a","p","p",".","c","c">>, <<".",".","/","a","l","l",".","c","c">>, <<"a","l","l","/","a","p","p",".","c","c">>, <<"A","l","l",".","c","c">>, <<"a","l","l",".","c","p","p">>, <<"a","l","l">>,
      <<".","a","p","p",".","c","c">>, <<"/","a","l","l",".","c","c">>, <<"1","a","l","l",".","c","c">>, <<".","/",".","/","a","l","l",".","c","c">>, <<"s","u","b","/","/","a","l","l",".","c","c">> }

\* a path for each check of add_application that comes before the reserved targets
RefusedPaths ==
    { <<"a","l","l",".","c","p","p">>, <<"1","a","l","l",".","c","c">>, <<"s","u","b","/","/","a","l","l",".","c","c">>, <<"/","a","l","l",".","c","c">>, <<".","a","p","p",".","c","c">> }

\* the arguments of a command: none, one path, or two with the first one valid
ArgLists ==
    {<<>>} \cup { <<path>> : path \in ArgPaths }
    \cup { <<first, path>> : first \in {f_app, f_cleaning},
                             path \in {f_app, f_tool, f_all, f_sub_all, <<".","/","a","p","p",".","c","c">>} }
    \cup { <<f_app, path>> : path \in RefusedPaths }

\* the values of the option --makefile of gen: unset, or a name
MakefileOptions == { <<>>, << <<"o","u","t",".","m","k">> >>, << <<"a","p","p",".","c","c">> >>, << <<"s","u","b">> >>, << <<"o","u","t","/">> >> }

CommandLines ==
    [command : temporary_commands \cup {<<>>, <<"h","e","l","p">>}, options_ok : BOOLEAN, f : {<<>>},
     args : ArgLists]
    \cup [command : { <<"g","e","n">> }, options_ok : BOOLEAN, f : MakefileOptions, args : ArgLists]

\* main is entered with a command line, in a project; nothing of the generator exists yet
InitDriver ==
    /\ PPIdle
    /\ validated = validated_none
    /\ probe = probe_idle
    /\ ScanIdle
    /\ \E project \in DriverProjects : fs = project.fs
    /\ home = <<>>
    /\ predefined_macros_ = {}
    /\ compiler_include_paths_ = <<>>
    /\ \E line \in CommandLines :
           cli = [cli_idle EXCEPT !.pc = "main", !.command = line.command,
                                  !.options_ok = line.options_ok, !.f = line.f,
                                  !.args = line.args]

NextDriver ==
    \/ Main \/ Options \/ Makefile \/ Setup \/ AddApplication \/ Scan \/ Parsed
    \/ Generate \/ MakeClean \/ MakeTarget \/ Spawn \/ MakeAfter \/ Remove \/ ReturnStatus

SpecDriver == InitDriver /\ [][NextDriver]_vars

\* the program is sequential: a command that has begun keeps taking its steps
FairDriver == SpecDriver /\ WF_vars(NextDriver)

----------------------------------------------------------------------------
(* Properties of the commands *)

\* the paths the reserved-target rule is about: a reserved name with the extension ".cc",
\* in the current directory, written with or without "./"
ReservedPaths ==
    { dir \o base \o <<".", "c", "c">> :
          dir \in { <<>>, <<".", "/">> },
          base \in { <<"a","l","l">>, <<"r","u","n">>, <<"c","l","e","a","n">>, <<"c","l","e","a","n","-","e","x","e","c","u","t","a","b","l","e","s">>, <<"c","l","e","a","n","-","o","b","j","e","c","t","-","f","i","l","e","s">>,
                     <<"d","e","s","t","r","u","c","t">>, <<"m","i","n","i","m","i","z","e","-","c","o","r","p","u","s">>, <<"c","o","m","p","r","e","s","s","-","c","o","r","p","u","s">> } }

\* add_application is about to be called with the path
Adding(path) == cli.pc = "add" /\ cli.pending # <<>> /\ Head(cli.pending) = path

\* C17: add_application fails for every path that is a reserved name in the current
\* directory (all.cc, ./all.cc, ...), gives the reserved-target error for no other path,
\* and accepts sub/all.cc, RUN.cc and cleaning.cc when they are neither ignored nor
\* duplicates
C17_ReservedTargets ==
    [][\A path \in ArgPaths :
           Adding(path) =>
               /\ path \in ReservedPaths => ~cli'.added[1].ok
               /\ path \in {f_all, f_dot_all} => ~cli'.added[1].ok
               /\ cli'.added[1].message = "Error: Reserved target" => path \in ReservedPaths
               /\ ( /\ path \in {f_sub_all, f_RUN, f_cleaning}
                    /\ path \notin Range(applications_)
                    /\ ~is_regular(fs, path \o kw_ignore) )
                  => ( /\ cli'.added[1].ok
                       /\ cli'.pc = "add"
                       /\ path \in Range(applications_') )
      ]_vars

\* cleaning.cc has been added and all.cc has been refused as a reserved target
C17_Witness ==
    /\ cli.added # <<>>
    /\ cli.added[1].path = f_all
    /\ ~cli.added[1].ok
    /\ cli.added[1].message = "Error: Reserved target"
    /\ cli.added[1].before = <<f_cleaning>>
    /\ cli.exit = <<exit_failure>>

\* the temporary build script of the command is there
TemporaryScript ==
    /\ cli.command \in temporary_commands
    /\ cli.makefile # <<>>
    /\ is_regular(fs, cli.makefile)

\* C18: in build, run and runall the temporary build script, once written, is deleted
\* before the command returns, whatever make and the spawned executable return: a script
\* that is there leads to the return of the command with the script gone, and no
\* command has returned with its script still there
C18_TemporaryScriptDeleted ==
    /\ TemporaryScript ~> (cli.pc = "returned" /\ ~is_something(fs, cli.makefile))
    /\ [](cli.pc = "returned" => ~TemporaryScript)

\* run has returned the exit status 2 of the executable it built, after a failed
\* "make clean", and the script is gone
C18_Witness ==
    /\ cli.pc = "returned"
    /\ cli.command = <<"r","u","n">>
    /\ cli.exit = <<2>>
    /\ [step |-> "generate", ok |-> TRUE] \in Range(cli.steps)
    /\ [step |-> "make clean", ok |-> FALSE] \in Range(cli.steps)
    /\ [step |-> "spawn", ok |-> FALSE] \in Range(cli.steps)
    /\ ~is_something(fs, cli.makefile)

\* C19: a command returns the exit code 0 only if every step on its way succeeded: the
\* command and its options, the makefile name, the compiler setup, every
\* add_application, the scan, the emitter, every make (the ones of "clean" and
\* "clean-object-files" too) and the spawned executable
C19_ZeroOnlyOnSuccess ==
    cli.exit = <<exit_success>> => \A i \in DOMAIN cli.steps : cli.steps[i].ok

----------------------------------------------------------------------------
(* validator.hh: is_directory on directory strings *)

MaxComponents == 3

\* what stands between the slashes of a directory string: nothing, the dots, names that
\* is_base accepts and names that it refuses
DirComponents ==
    { <<>>, <<".">>, <<".",".">>, <<"a">>, <<".","a">>, <<"a",".","b">>, <<".",".",".">>, <<"-">>, <<"8","3">> }

\* the strings made of up to MaxComponents components, with or without a slash before
\* and after them
Directories ==
    { lead \o join(components) \o trail :
          lead \in { <<>>, <<"/">> }, trail \in { <<>>, <<"/">> },
          components \in UNION { [1..n -> DirComponents] : n \in 0..MaxComponents } }

\* is_directory is about to be called with a directory string
InitValidator ==
    /\ PPIdle
    /\ ScanIdle
    /\ \E input \in Directories : validated = [input |-> input, result |-> <<>>]
    /\ probe = probe_idle
    /\ cli = cli_idle
    /\ fs = <<>>
    /\ home = <<>>
    /\ predefined_macros_ = {}
    /\ compiler_include_paths_ = <<>>

\* validator::is_directory(input)
Validate ==
    /\ validated.result = <<>>
    /\ validated' = [validated EXCEPT !.result = <<is_directory(validated.input)>>]
    /\ UNCHANGED <<cli, probe, envvars, scanvars, pp, script, fed, verdicts, open, last>>

NextValidator == Validate

SpecValidator == InitValidator /\ [][NextValidator]_vars

\* the directory strings of the grammar: empty, or after one optional leading slash
\* components that are ".", ".." or accepted by is_base, each followed by a slash
Grammar(s) ==
    \/ s = <<>>
    \/ \E rest \in {drop_front(s, <<"/">>)} :
           \/ rest = <<>>
           \/ /\ has_back(rest, <<"/">>)
              /\ \A component \in Range(split(drop_back_n(rest, 1), "/")) :
                     component \in { <<".">>, <<".",".">> } \/ is_base(component)

\* C20: is_directory accepts exactly the strings of the grammar
C20_DirectoryGrammar ==
    validated.result # <<>> => (validated.result[1] <=> Grammar(validated.input))

----------------------------------------------------------------------------
(* Properties of the directive evaluator: the four directives one by one *)

\* the value of an expression, by the grammar: not_understood unless well-formed,
\* else compile when the term holds and is not negated or fails and is negated
Eval(e) ==
    IF ~WellFormed(e) THEN not_understood
    ELSE IF Holds(e) # (e.pre = <<"!">>) THEN compile
    ELSE skip

\* the last call processed a line with the directive
Processed(dir) == last.called /\ last.in.dir = dir

\* the pair that #if pushes
Saved(p) == <<p.state_, p.if_statement_handled_>>

C22_Elif ==
    Processed("elif") =>
        /\ pp.stack_ = last.pre.stack_
        /\ ~last.pre.if_statement_handled_ =>
               IF Eval(last.in.e) = skip
               THEN /\ pp.state_ = last.pre.state_
                    /\ pp.if_statement_handled_ = last.pre.if_statement_handled_
               ELSE /\ pp.state_ = Eval(last.in.e)
                    /\ pp.if_statement_handled_
        /\ last.pre.if_statement_handled_ =>
               /\ pp.state_ = (IF last.pre.state_ = compile THEN skip ELSE last.pre.state_)
               /\ pp.if_statement_handled_

\* C23: #else never changes the stack; with handled false the state becomes compile and
\* handled true; with handled true compile becomes skip, skip and not_understood stay,
\* and handled stays true
C23_Else ==
    Processed("else") =>
        /\ pp.stack_ = last.pre.stack_
        /\ pp.if_statement_handled_
        /\ pp.state_ = (IF ~last.pre.if_statement_handled_ THEN compile
                        ELSE IF last.pre.state_ = compile THEN skip
                        ELSE last.pre.state_)
        /\ last.ret = pp.state_

\* a second #else in a row inside a block: the first made the state compile, the
\* second makes it skip
C23_Witness ==
    /\ Processed("else")
    /\ last.pre.stack_ # <<>>
    /\ last.pre.if_statement_handled_ /\ last.pre.state_ = compile
    /\ pp.state_ = skip
    /\ \E i \in DOMAIN open.ifs : open.ifs[i].state_ = compile

\* C24: #endif with a non-empty stack removes the top pair and makes it the state and
\* the handled flag; with an empty stack it leaves state, handled and stack as they
\* were; in both cases it returns the state
C24_Endif ==
    Processed("endif") =>
        /\ last.ret = pp.state_
        /\ IF last.pre.stack_ # <<>>
           THEN /\ last.pre.stack_ = Append(pp.stack_, Saved(pp))
           ELSE pp = last.pre

\* an #endif outside any block, after a stray #elif made the state skip
C24_Witness ==
    /\ Processed("endif")
    /\ last.pre.stack_ = <<>>
    /\ last.pre.state_ = skip
    /\ last.ret = skip

\* a line that is no #if, #elif, #else or #endif
OtherLine(in) == in.dir \notin {"if", "elif", "else", "endif"}

\* C25: a line that does not begin with "#", or whose directive token is none of if,
\* elif, else, endif (#include, #define, #pragma, #ifdef, #ifndef, #IF), leaves state,
\* handled flag and stack unchanged and returns the state
C25_OtherLines ==
    (last.called /\ OtherLine(last.in)) => (pp = last.pre /\ last.ret = last.pre.state_)

\* an #ifdef inside a skipped block
C25_Witness ==
    /\ Processed("ifdef")
    /\ last.pre.stack_ # <<>>
    /\ last.pre.state_ = skip
    /\ ~last.pre.if_statement_handled_
    /\ last.ret = skip

\* the last call evaluated __has_include(<PATH>), with nothing before or after it
HasIncludeEvaluated ==
    /\ Evaluated
    /\ last.in.e.core = "has_include"
    /\ last.in.e.pre = <<>>
    /\ last.in.e.tail = <<>>

\* C26: __has_include(<PATH>) with a PATH that is_file_path accepts is compile when some
\* directory of the include-path list, with PATH appended, names a regular file, and
\* skip otherwise, the list counting as a set; with any other PATH it is not_understood
C26_HasInclude ==
    HasIncludeEvaluated =>
        last.ret = (IF ~is_file_path(last.in.e.arg) THEN not_understood
                    ELSE IF \E dir \in Range(compiler_include_paths_) :
                                resolve(dir \o last.in.e.arg) \in DOMAIN fs
                    THEN compile
                    ELSE skip)

\* the file is found under the second directory of the list and not under the first
C26_Witness ==
    /\ HasIncludeEvaluated
    /\ Len(compiler_include_paths_) = 2
    /\ resolve(compiler_include_paths_[1] \o last.in.e.arg) \notin DOMAIN fs
    /\ resolve(compiler_include_paths_[2] \o last.in.e.arg) \in DOMAIN fs
    /\ last.ret = compile


----------------------------------------------------------------------------
(* Properties of the scanner: where the scan of a file ends, and what a dormant line
   leaves behind *)

\* a line that is not empty and begins with neither "#" nor "//"
CodeLine(line) ==
    /\ line # <<>>
    /\ line[1] # "#"
    /\ ~(Len(line) >= 2 /\ line[1] = "/" /\ line[2] = "/")

\* the index of the first code line of a file, one past its end if it has none
FirstCode(contents) ==
    IF \E i \in DOMAIN contents : CodeLine(trim(contents[i]))
    THEN CHOOSE i \in DOMAIN contents :
             /\ CodeLine(trim(contents[i]))
             /\ \A j \in 1..(i - 1) : ~CodeLine(trim(contents[j]))
    ELSE Len(contents) + 1

\* the lines of a file before its first code line
Preamble(contents) == SubSeq(contents, 1, FirstCode(contents) - 1)

\* the next step scans the first code line of the file on top
ScanningCode ==
    /\ call = <<>> /\ ret = <<>> /\ frames # <<>> /\ Top.pc = "line"
    /\ Top.i <= Len(fs[resolve(Top.file)])
    /\ Top.i = FirstCode(fs[resolve(Top.file)])

\* C27: the scan of a file ends, with success, at the first line that is not empty and
\* begins with neither "#" nor "//", whatever the evaluator's verdict for that line; no
\* line after it is ever reached, and every header and library recorded for the file
\* comes from a line before it
C27_StopsAtCode ==
    /\ [][ScanningCode =>
              /\ frames' = drop_back_n(frames, 1) /\ ret' = <<TRUE>> /\ call' = <<>>
              /\ dependencies_' = dependencies_ /\ include_path_' = include_path_
              /\ reads' = reads]_vars
    /\ [](\A k \in DOMAIN frames :
              is_regular(fs, resolve(frames[k].file))
                  => frames[k].i <= FirstCode(fs[resolve(frames[k].file)]))
    /\ [](\A f \in DOMAIN dependencies_ :
              is_regular(fs, resolve(f)) =>
                  /\ Range(dependencies_[f].header_files)
                         \subseteq { include_path_ \o q :
                                         q \in QuotedPaths(Preamble(fs[resolve(f)])) }
                  /\ Range(dependencies_[f].libraries)
                         \subseteq UNION { LibraryNames(trim(Preamble(fs[resolve(f)])[j])) :
                                               j \in DOMAIN Preamble(fs[resolve(f)]) })

\* the scan of an application has ended at a code line inside a block the evaluator did
\* not understand, and the include after the block was not recorded
C27_Witness ==
    /\ ret = <<TRUE>> /\ frames = <<>>
    /\ f_app \in DOMAIN dependencies_
    /\ fs[f_app] = <<L_if_0, L_code, L_endif, L_inc_a, L_sys_zlib>>
    /\ dependencies_[f_app].header_files = <<>>
    /\ dependencies_[f_app].libraries = <<>>


\* the next step scans a line for which the evaluator's verdict is skip or not_understood
ScanningDormant ==
    /\ call = <<>> /\ ret = <<>> /\ frames # <<>> /\ Top.pc = "line"
    /\ Top.i <= Len(fs[resolve(Top.file)])
    /\ process(Top.preprocessor, CurrentLine).state_ \in {skip, not_understood}

\* C28: a line whose verdict is skip or not_understood adds nothing: no header, twin
\* source or library is recorded, no file is entered or read, the include root is not
\* probed; the scan goes on with the next line, or ends at a code line
C28_DormantLines ==
    [][ScanningDormant =>
          /\ dependencies_' = dependencies_ /\ include_path_' = include_path_
          /\ call' = <<>> /\ reads' = reads
          /\ IF CodeLine(CurrentLine)
             THEN frames' = drop_back_n(frames, 1) /\ ret' = <<TRUE>>
             ELSE /\ ret' = <<>>
                  /\ frames' = [frames EXCEPT ![Len(frames)] =
                         [@ EXCEPT !.i = @ + 1,
                                   !.preprocessor = process(Top.preprocessor, CurrentLine)]]
      ]_vars

\* the include of a.hh with its library notes, inside a block the evaluator did not
\* understand, has been passed: nothing is recorded and the scan is at the next line
C28_Witness ==
    /\ call = <<>> /\ ret = <<>> /\ Len(frames) = 1 /\ Top.pc = "line" /\ Top.i = 3
    /\ Top.file = f_app
    /\ fs[f_app][1] = L_if_0 /\ fs[f_app][2] = L_inc_a_libs
    /\ Top.preprocessor.state_ = not_understood
    /\ dependencies_[f_app].header_files = <<>>
    /\ dependencies_[f_app].libraries = <<>>
    /\ include_path_ = <<>>


----------------------------------------------------------------------------
(* The recursion limit of the scanner: include chains as deep as the limit *)

Digits == <<"0","1","2","3","4","5","6","7","8","9">>

RECURSIVE decimal(_)
\* the decimal digits of n
decimal(n) ==
    IF n < 10 THEN <<Digits[n + 1]>> ELSE decimal(n \div 10) \o <<Digits[(n % 10) + 1]>>

\* the k-th header of a chain, and its twin source
link(k) == <<"h">> \o decimal(k) \o <<".","h","h">>

link_cc(k) == <<"h">> \o decimal(k) \o <<".","c","c">>

include_of(path) == kw_include_quote \o path \o <<"\"">>

\* an application that includes h1.hh, which includes h2.hh, and so on up to hN.hh: the
\* application is scanned at depth 0 and hK.hh at depth K. The last header has no twin
\* source ("none"), a twin with code only ("code"), or a twin that includes the header
\* once more ("loop"): the twin is scanned at depth N and its include at depth N + 1; or
\* the last header includes the first ("back"), a cycle entered at depth N + 1
Chain(n, ending) ==
    [fs |-> Files({<<f_app, <<include_of(link(1)), L_code>>>>}
                  \cup { <<link(k), IF k < n THEN <<L_pragma, include_of(link(k + 1))>>
                                     ELSE IF ending = "back"
                                     THEN <<L_pragma, include_of(link(1))>>
                                     ELSE <<L_pragma>>>> : k \in 1..n }
                  \cup (CASE ending \in {"none", "back"} -> {}
                          [] ending = "code" -> {<<link_cc(n), <<L_code>>>>}
                          [] ending = "loop" -> {<<link_cc(n), <<include_of(link(n)), L_code>>>>})),
     applications |-> <<f_app>>,
     macros |-> {}]

\* chains whose deepest call is at the limit
ChainsWithin ==
    { Chain(max_depth, "none"), Chain(max_depth, "code"), Chain(max_depth - 1, "loop"),
      Chain(max_depth - 1, "back"), Chain(max_depth - 2, "loop"), Chain(2, "back"),
      Chain(1, "loop") }

\* chains whose deepest call is one past the limit: for a file not yet scanned, and for
\* one that is a key of the map already
ChainsBeyond ==
    { Chain(max_depth + 1, "none"), Chain(max_depth, "loop"), Chain(max_depth, "back") }

InitDepth ==
    /\ PPIdle
    /\ validated = validated_none
    /\ probe = probe_idle
    /\ cli = cli_idle
    /\ \E project \in ChainsWithin \cup ChainsBeyond :
           /\ fs = project.fs
           /\ applications_ = project.applications
           /\ predefined_macros_ = project.macros
    /\ home = <<>>
    /\ compiler_include_paths_ = <<d_usr_include>>
    /\ dependencies_ = <<>>
    /\ include_path_ = <<>>
    /\ run = [pc |-> "idle", i |-> 0, back |-> "idle"]
    /\ frames = <<>>
    /\ call = <<>>
    /\ ret = <<>>
    /\ reads = <<>>
    /\ query = query_idle

NextDepth == ScanStep \/ Again

SpecDepth == InitDepth /\ [][NextDepth]_vars

FilesWithin == { project.fs : project \in ChainsWithin }

FilesBeyond == { project.fs : project \in ChainsBeyond }

\* C29: a call of parse_recursive_ fails on the depth alone, before the map is looked at
\* or the file read, exactly when its depth is above 128: at depth 129 it fails for a key
\* of the map as for any other file, at depth 128 and below a key gives success and any
\* other file is inserted and read. A chain of includes whose deepest call is at depth 128
\* never fails; one whose deepest call is at depth 129 never succeeds
C29_DepthLimit ==
    /\ [][call # <<>> =>
              IF call[1].depth > 128
              THEN /\ ret' = <<FALSE>> /\ call' = <<>>
                   /\ dependencies_' = dependencies_ /\ reads' = reads /\ frames' = frames
              ELSE IF call[1].file \in DOMAIN dependencies_
              THEN /\ ret' = <<TRUE>> /\ call' = <<>>
                   /\ dependencies_' = dependencies_ /\ reads' = reads /\ frames' = frames
              ELSE /\ call[1].file \in DOMAIN dependencies_'
                   /\ reads' = Append(reads, call[1].file)]_vars
    /\ [](fs \in FilesWithin => run.pc # "failed")
    /\ [](fs \in FilesBeyond => run.pc # "parsed")
    /\ [](\A k \in DOMAIN frames : frames[k].depth <= 128)

\* the chain h1.hh .. h128.hh has been scanned with success, h128.hh at depth 128
C29_Witness ==
    /\ run.pc = "parsed"
    /\ fs = Chain(max_depth, "none").fs
    /\ include_path_ = <<".", "/">>
    /\ DOMAIN dependencies_ = {f_app} \cup { include_path_ \o link(k) : k \in 1..128 }
    /\ dependencies_[include_path_ \o link(127)].header_files = <<include_path_ \o link(128)>>

\* a call at depth 129 for a file that is a key of the map has failed
DeepKeyRefused ==
    /\ ret = <<FALSE>> /\ call = <<>>
    /\ Len(frames) = 129 /\ Top.depth = 128 /\ Top.file = include_path_ \o link_cc(128)
    /\ include_path_ \o link(128) \in DOMAIN dependencies_


----------------------------------------------------------------------------
(* Properties of generator::add_application: refused paths and the applications set *)

AddErrors ==
    { "Error: Path must have .cc extension", "Error: Unsupported character in basename",
      "Error: Unsupported character in path", "Error: Path must be relative",
      "Error: Reserved target", "Error: A path starting with a dot must include a slash",
      "Error: Duplicate application source file" }

\* C30: adding a path that is in the applications set already fails; every call of
\* add_application that fails, for whichever reason, leaves the set as it was, and a call
\* that succeeds adds at most its path; the set never holds a path twice
C30_RefusedAddKeepsSet ==
    /\ [][\A path \in ArgPaths :
              Adding(path) =>
                  /\ path \in Range(applications_) =>
                         /\ ~cli'.added[1].ok
                         /\ cli'.added[1].message = "Error: Duplicate application source file"
                  /\ ~cli'.added[1].ok =>
                         /\ applications_' = applications_
                         /\ cli'.added[1].message \in AddErrors
                  /\ cli'.added[1].ok =>
                         /\ cli'.added[1].message \notin AddErrors
                         /\ Range(applications_') \subseteq Range(applications_) \cup {path}
                         /\ Len(applications_') <= Len(applications_) + 1
      ]_vars
    /\ [](\A i, j \in DOMAIN applications_ :
              applications_[i] = applications_[j] => i = j)

\* app.cc has been added a second time: the call failed and the set holds it once
C30_Witness ==
    /\ cli.added # <<>>
    /\ cli.added[1].path = f_app
    /\ ~cli.added[1].ok
    /\ cli.added[1].message = "Error: Duplicate application source file"
    /\ cli.added[1].before = <<f_app>>
    /\ applications_ = <<f_app>>
    /\ cli.exit = <<exit_failure>>


----------------------------------------------------------------------------
(* Properties of the command gen: a build script that is there already *)

\* the path gen is to write: the value of --makefile, or "makefile"
GenTarget == IF cli.f = <<>> THEN f_makefile ELSE cli.f[1]

\* gen is running and its target names a file, or a directory, that is there
GenTargetTaken ==
    /\ cli.command = <<"g","e","n">>
    /\ cli.pc # "returned"
    /\ \E f \in DOMAIN fs : f = GenTarget \/ has_front(f, GenTarget \o <<"/">>)

StepNames == { cli.steps[i].step : i \in DOMAIN cli.steps }

\* C31: gen fails when its target names something that exists already, and writes
\* nothing: no step of gen changes the file system while the target is taken, the check
\* of the target returns failure, and it does so before the compiler is probed, an
\* application added or a file scanned
C31_GenKeepsExistingTarget ==
    /\ [][GenTargetTaken => fs' = fs]_vars
    /\ [][(GenTargetTaken /\ cli.pc = "makefile") =>
              /\ cli'.pc = "returned" /\ cli'.exit = <<exit_failure>>
              /\ StepNames \cap {"setup", "add_application", "parse", "generate"} = {}
              /\ predefined_macros_' = {} /\ compiler_include_paths_' = <<>>
              /\ applications_' = <<>> /\ dependencies_' = <<>> /\ reads' = <<>>]_vars
    /\ [](GenTargetTaken => cli.pc \in {"main", "options", "makefile"})

\* gen has returned failure on the existing file "makefile", which is as it was
C31_Witness ==
    /\ cli.command = <<"g","e","n">> /\ cli.f = <<>>
    /\ cli.pc = "returned" /\ cli.exit = <<exit_failure>>
    /\ cli.steps[Len(cli.steps)] = [step |-> "makefile exists", ok |-> FALSE]
    /\ fs = Singles.fs
    /\ fs[f_makefile] = <<L_comment>>
    /\ dependencies_ = <<>>


----------------------------------------------------------------------------
(* snn.cc: generator::ask_compiler_for_defaults_, the reader of the compiler's output *)

include_list_start == <<"#","i","n","c","l","u","d","e"," ","<",".",".",".",">"," ","s","e","a","r","c","h"," ","s","t","a","r","t","s"," ","h","e","r","e",":">>

kw_define == <<"#","d","e","f","i","n","e"," ">>

\* chr::is_ascii_control_or_space, for the characters of the lines read
ascii_control_or_space == {" ", "\t", "\n", "\f", "\r"}

\* rng.pop_front_while(...); rng.pop_back_while(...) (snn.cc:586-587)
trimmed(line) ==
    only({ drop_back_n(t, back_while(t, ascii_control_or_space)) :
               t \in {drop_front_n(line, front_while(line, ascii_control_or_space))} })

\* map::sorted::insert_or_assign(key, value)
insert_or_assign(map, key, value) ==
    [k \in DOMAIN map \cup {key} |-> IF k = key THEN value ELSE map[k]]

\* case maybe_define: a line "#define NAME VALUE" gives the entry, the marker line opens
\* the include list (snn.cc:591-613)
maybe_define(r, rng) ==
    IF has_front(rng, kw_define)
    THEN only({ only({ IF macro = <<>> THEN r
                       ELSE [r EXCEPT !.macros = insert_or_assign(
                                          @, macro,
                                          drop_front(drop_front_n(rest, Len(macro)), <<" ">>))]
                     : macro \in {SubSeq(rest, 1, front_until(rest, " "))} })
              : rest \in {drop_front_n(rng, Len(kw_define))} })
    ELSE IF rng = include_list_start
    THEN [r EXCEPT !.state = "include_list"]
    ELSE r

\* case include_list: a line that begins with "/" is a path, any other line closes the
\* list (snn.cc:615-630)
include_list(r, rng) ==
    IF has_front(rng, <<"/">>)
    THEN [r EXCEPT !.paths = Append(@, IF has_back(rng, <<"/">>) THEN rng
                                       ELSE rng \o <<"/">>)]
    ELSE [r EXCEPT !.state = "maybe_define"]

\* one turn of the loop over the lines of the output (snn.cc:582-632)
read_line(r, line) ==
    IF r.state = "maybe_define" THEN maybe_define(r, trimmed(line))
    ELSE include_list(r, trimmed(line))

\* the command could not be executed: if (output) fails (snn.cc:580, 642)
ProbeFail ==
    /\ probe.pc = "asking"
    /\ probe' = [probe EXCEPT !.pc = "returned", !.result = <<FALSE>>]
    /\ UNCHANGED <<cli, validated, pp, script, fed, verdicts, open, last, envvars, scanvars>>

\* the command runs and its output is there to be read
ProbeExecute ==
    /\ probe.pc = "asking"
    /\ probe' = [probe EXCEPT !.pc = "reading", !.i = 1]
    /\ UNCHANGED <<cli, validated, pp, script, fed, verdicts, open, last, envvars, scanvars>>

\* the next line of the output is read
ProbeLine ==
    /\ probe.pc = "reading" /\ probe.i <= Len(probe.output)
    /\ \E r \in {read_line([state |-> probe.state, macros |-> probe.macros,
                            paths |-> compiler_include_paths_],
                           probe.output[probe.i])} :
           /\ probe' = [probe EXCEPT !.state = r.state, !.macros = r.macros, !.i = @ + 1]
           /\ predefined_macros_' = DOMAIN r.macros
           /\ compiler_include_paths_' = r.paths
    /\ UNCHANGED <<cli, validated, pp, script, fed, verdicts, open, last, fs, home, scanvars>>

\* the output has ended: success needs a macro, an include path and the exit status of
\* success (snn.cc:634-642)
ProbeReturn ==
    /\ probe.pc = "reading" /\ probe.i > Len(probe.output)
    /\ \E exit_status \in ExitStatuses :
           probe' = [probe EXCEPT
                        !.pc = "returned",
                        !.result = IF predefined_macros_ # {} /\ compiler_include_paths_ # <<>>
                                   THEN <<exit_status = exit_success>>
                                   ELSE <<FALSE>>,
                        !.exit_status = <<exit_status>>]
    /\ UNCHANGED <<cli, validated, pp, script, fed, verdicts, open, last, envvars, scanvars>>

P_define_FOO_1 == <<"#","d","e","f","i","n","e"," ","F","O","O"," ","1">>

P_define_FOO_2 == <<"#","d","e","f","i","n","e"," ","F","O","O"," ","2"," ","3">> \o <<"\r">>

P_define_BAR == <<"#","d","e","f","i","n","e"," ","B","A","R">>

P_define_nameless == <<"#","d","e","f","i","n","e"," "," ","X"," ","1">>

P_marker == <<"#","i","n","c","l","u","d","e"," ","<",".",".",".",">"," ","s","e","a","r","c","h"," ","s","t","a","r","t","s"," ","h","e","r","e",":">>

P_marker_more == <<"#","i","n","c","l","u","d","e"," ","<",".",".",".",">"," ","s","e","a","r","c","h"," ","s","t","a","r","t","s"," ","h","e","r","e",":"," ","/","o","p","t">>

P_path == <<" ","/","u","s","r","/","i","n","c","l","u","d","e">>

P_path_slash == <<" ","/","u","s","r","/","l","i","b","/">> \o <<"\r">>

P_end == <<"E","n","d"," ","o","f"," ","s","e","a","r","c","h"," ","l","i","s","t",".">>

ProbeLines ==
    { P_define_FOO_1, P_define_FOO_2, P_define_BAR, P_define_nameless, P_marker,
      P_marker_more, P_path, P_path_slash, P_end }

MaxOutput == 4

\* the outputs of the compiler: up to MaxOutput lines
ProbeOutputs == UNION { [1..n -> ProbeLines] : n \in 0..MaxOutput }

\* ask_compiler_for_defaults_ is about to run the compiler; what it will print is fixed
InitProbe ==
    /\ PPIdle
    /\ ScanIdle
    /\ validated = validated_none
    /\ cli = cli_idle
    /\ fs = <<>>
    /\ home = <<>>
    /\ predefined_macros_ = {}
    /\ compiler_include_paths_ = <<>>
    /\ \E output \in ProbeOutputs :
           probe = [probe_idle EXCEPT !.pc = "asking", !.output = output]

NextProbe == ProbeFail \/ ProbeExecute \/ ProbeLine \/ ProbeReturn

SpecProbe == InitProbe /\ [][NextProbe]_vars


----------------------------------------------------------------------------
(* Properties of the reader of the compiler's output *)

\* the next step reads line i of the output
ProbeReading == probe.pc = "reading" /\ probe.i <= Len(probe.output)

ProbeCurrent == trimmed(probe.output[probe.i])

\* NAME and VALUE of a line "#define NAME VALUE"
DefineName(rng) ==
    SubSeq(rng, Len(kw_define) + 1,
           Len(kw_define) + front_until(drop_front_n(rng, Len(kw_define)), " "))

DefineValue(rng) ==
    drop_front(drop_front_n(rng, Len(kw_define) + Len(DefineName(rng))), <<" ">>)

DefineLine(rng) == has_front(rng, kw_define) /\ DefineName(rng) # <<>>

PathLine(rng) == has_front(rng, <<"/">>)

\* line i lies between a marker line and the first line after it that is not a path
InIncludeSpan(output, i) ==
    \E j \in 1..(i - 1) :
        /\ trimmed(output[j]) = include_list_start
        /\ \A k \in (j + 1)..(i - 1) : PathLine(trimmed(output[k]))

\* C32: every line "#define NAME VALUE" of the output gives the entry (NAME, VALUE);
\* every line that begins with "/" between the marker line and the first line after it
\* that is not a path gives one include path, appended with a "/" at its end, and no
\* other line gives one; the probe succeeds only with a macro, an include path and the
\* exit status of success
C32_ProbeReader ==
    /\ [][(ProbeReading /\ DefineLine(ProbeCurrent)) =>
              /\ DefineName(ProbeCurrent) \in DOMAIN probe'.macros
              /\ probe'.macros[DefineName(ProbeCurrent)] = DefineValue(ProbeCurrent)
              /\ predefined_macros_' = predefined_macros_ \cup {DefineName(ProbeCurrent)}
       ]_vars
    /\ [][ProbeReading =>
              compiler_include_paths_' =
                  IF PathLine(ProbeCurrent) /\ InIncludeSpan(probe.output, probe.i)
                  THEN Append(compiler_include_paths_,
                              IF ProbeCurrent[Len(ProbeCurrent)] = "/" THEN ProbeCurrent
                              ELSE ProbeCurrent \o <<"/">>)
                  ELSE compiler_include_paths_]_vars
    /\ [](probe.result = <<TRUE>> =>
              /\ predefined_macros_ # {} /\ compiler_include_paths_ # <<>>
              /\ probe.exit_status = <<exit_success>>)

\* the same with the define lines and the include span as the reader's state has them:
\* a line is looked at as a define or a marker in state maybe_define only, so the line
\* that closes an include list is neither
ProbeReaderByState ==
    /\ [][(ProbeReading /\ DefineLine(ProbeCurrent) /\ probe.state = "maybe_define") =>
              /\ DefineName(ProbeCurrent) \in DOMAIN probe'.macros
              /\ probe'.macros[DefineName(ProbeCurrent)] = DefineValue(ProbeCurrent)
       ]_vars
    /\ [][(ProbeReading /\ probe.state = "include_list") =>
              /\ probe'.macros = probe.macros
              /\ InIncludeSpan(probe.output, probe.i)]_vars
    /\ [][ProbeReading =>
              compiler_include_paths_' =
                  IF PathLine(ProbeCurrent) /\ probe.state = "include_list"
                  THEN Append(compiler_include_paths_,
                              IF ProbeCurrent[Len(ProbeCurrent)] = "/" THEN ProbeCurrent
                              ELSE ProbeCurrent \o <<"/">>)
                  ELSE compiler_include_paths_]_vars
    /\ [](probe.result # <<>> =>
              (probe.result[1] <=> /\ predefined_macros_ # {}
                                   /\ compiler_include_paths_ # <<>>
                                   /\ probe.exit_status = <<exit_success>>))


----------------------------------------------------------------------------
(* Properties of the directive evaluator: #ifdef and #ifndef blocks, and chains *)

\* the step feeds the #endif of an #ifdef or #ifndef block that lies inside an open #if
\* block, the blocks paired as the language pairs them
ClosingInnerIfdef ==
    /\ fed' = fed + 1
    /\ last'.in.dir = "endif"
    /\ open.nest # <<>> /\ open.nest[Len(open.nest)] = "ifdef"
    /\ "if" \in Range(open.nest)

\* C33: the #endif of an #ifdef or #ifndef block nested inside an open #if block does not
\* close the #if block: state, handled flag and stack are as before it, so the stack
\* still counts the #if block and the lines that follow get its verdicts
C33_InnerEndifKeepsIf ==
    [][ClosingInnerIfdef =>
           /\ pp' = pp
           /\ last'.ret = pp.state_
           /\ Len(pp'.stack_) = Cardinality({i \in DOMAIN open'.nest : open'.nest[i] = "if"})
      ]_vars


\* the step feeds an #elif or #else of a chain in which a branch has had the verdict
\* compile already
LeavingElected ==
    /\ fed' = fed + 1
    /\ last'.in.dir \in {"elif", "else"}
    /\ open.won # <<>> /\ open.won[Len(open.won)] >= 1

----------------------------------------------------------------------------
(* Properties of the scanner: the recorded graph and its keys *)

\* the files a record names: its headers and its sources
Named(record) == Range(record.header_files) \cup Range(record.source_files)

\* C35: once parse has returned success every path in the header set or the source set
\* of any record is a key of the dependency map, and no closure query finds a key missing
C35_NamedFilesAreKeys ==
    /\ [](run.pc = "parsed" =>
              \A f \in DOMAIN dependencies_ : Named(dependencies_[f]) \subseteq DOMAIN dependencies_)
    /\ [](query.status # "threw")

\* the source query of app.cc has ended over records that name headers and twin sources
C35_Witness ==
    /\ run.pc = "parsed"
    /\ query.status = "done" /\ query.kind = "source" /\ query.root = f_app
    /\ \E f \in DOMAIN dependencies_ :
           /\ dependencies_[f].header_files # <<>>
           /\ dependencies_[f].source_files # <<>>
    /\ Len(query.dependencies) >= 2


\* the twin source of a header, by its name
TwinOf(header) == drop_back_n(header, 2) \o <<"c", "c">>

\* the next step scans a live quoted include of a header that is a key of the map already
ScanningSharedHeader ==
    /\ ScanningInclude
    /\ has_front(CurrentLine, kw_include_quote)
    /\ is_file_path(quoted_path(CurrentLine))
    /\ \A name \in LibraryNames(CurrentLine) : is_library(name)
    /\ include_path_ # <<>>
    /\ include_path_ \o quoted_path(CurrentLine) \in DOMAIN dependencies_

\* the scan of a header has returned success to the file that includes it, and the twin
\* source of the header is on disk
TwinIsNext ==
    /\ frames # <<>> /\ Top.pc = "after_header" /\ ret = <<TRUE>>
    /\ is_regular(fs, TwinOf(Top.file_next))

\* C36: an edge is recorded for the including file also when its target has been scanned
\* before: a header that is a key already is added to the header set of the file that
\* includes it, and its twin source, when on disk, to the source set, while no file is
\* read twice; so the source and library queries of a second application return the
\* sources and the libraries of the files it shares with the first
C36_EdgesToScannedFiles ==
    /\ [][ScanningSharedHeader =>
              include_path_ \o quoted_path(CurrentLine)
                  \in Range(dependencies_'[Top.file].header_files)]_vars
    /\ [][TwinIsNext =>
              TwinOf(Top.file_next) \in Range(dependencies_'[Top.file].source_files)]_vars
    /\ [](\A i, j \in DOMAIN reads : reads[i] = reads[j] => i = j)
    /\ []((query.status = "done" /\ query.root = f_tool /\ f_tool \in DOMAIN dependencies_) =>
              /\ query.kind = "source" =>
                     \A h \in Range(dependencies_[f_tool].header_files) :
                         is_regular(fs, TwinOf(h)) => TwinOf(h) \in Range(query.dependencies)
              /\ query.kind = "library" =>
                     \A x \in Named(dependencies_[f_tool]) :
                         Range(dependencies_[x].libraries) \subseteq Range(query.dependencies))

\* the library query of the second application, all of whose headers were read before it
\* was, returns a library that only a shared file names
C36_Witness ==
    /\ query.status = "done" /\ query.kind = "library" /\ query.root = f_tool
    /\ applications_ = <<f_app, f_tool>>
    /\ dependencies_[f_tool].libraries = <<>>
    /\ dependencies_[f_tool].header_files # <<>>
    /\ dependencies_[f_tool].source_files # <<>>
    /\ reads[Len(reads)] = f_tool
    /\ query.dependencies # <<>>


\* a call of parse_recursive_ is about to be entered, at a depth that is accepted
Entering == call # <<>> /\ call[1].depth <= 128

\* C37: the key of a file is inserted when the file is first entered, before it is read
\* and whether or not it can be read; no key is ever removed, whatever the scan of the
\* file returns; a call for a key, at a depth of at most 128, returns success and reads
\* nothing, also after the scan of that file has failed
C37_KeysOutliveFailure ==
    /\ [][(Entering /\ call[1].file \notin DOMAIN dependencies_) =>
              /\ call[1].file \in DOMAIN dependencies_'
              /\ reads' = Append(reads, call[1].file)
              /\ ~readable(call[1].file) => ret' = <<FALSE>>]_vars
    /\ [][DOMAIN dependencies_ \subseteq DOMAIN dependencies_']_vars
    /\ [][(Entering /\ call[1].file \in DOMAIN dependencies_) =>
              ret' = <<TRUE>> /\ reads' = reads /\ frames' = frames
              /\ dependencies_' = dependencies_]_vars
    /\ [](Range(reads) \subseteq DOMAIN dependencies_)

\* parse has failed on the empty header b.hh; a further call for a key has returned
\* success, and every file was read once
C37_Witness ==
    /\ run.pc = "again" /\ run.back = "failed" /\ ret = <<TRUE>> /\ frames = <<>>
    /\ \E h \in DOMAIN dependencies_ :
           /\ is_regular(fs, h) /\ fs[resolve(h)] = <<>>
           /\ reads[Len(reads)] = h
    /\ \A i, j \in DOMAIN reads : reads[i] = reads[j] => i = j


----------------------------------------------------------------------------
(* snn.cc: generator::generate, the names it writes as targets *)

\* the phony targets in the order generate appends them (snn.cc:262-414)
phony_targets(fuzz_) ==
    << <<"a","l","l">>, <<"c","l","e","a","n","-","e","x","e","c","u","t","a","b","l","e","s">>, <<"c","l","e","a","n","-","o","b","j","e","c","t","-","f","i","l","e","s">>, <<"c","l","e","a","n">> >>
    \o IF ~fuzz_ THEN << <<"d","e","s","t","r","u","c","t">>, <<"r","u","n">> >>
       ELSE << <<"d","e","s","t","r","u","c","t">>, <<"m","i","n","i","m","i","z","e","-","c","o","r","p","u","s">>, <<"c","o","m","p","r","e","s","s","-","c","o","r","p","u","s">>, <<"r","u","n">> >>

\* the value of APPn: app.view_offset(0, -3), the path without ".cc" (snn.cc:232-234)
executable(app) == drop_back_n(app, 3)

\* C38: is_reserved_target holds, for the directories "" and "./", of every phony target
\* generate writes, with and without fuzz; so the APPn value of an application that
\* add_application has accepted is no phony target and no "./" followed by one
C38_PhonyTargetsReserved ==
    /\ \A fuzz_ \in BOOLEAN :
       \A name \in Range(phony_targets(fuzz_)) :
           is_reserved_target(<<>>, name) /\ is_reserved_target(<<".", "/">>, name)
    /\ \A app \in Range(applications_) :
       \A fuzz_ \in BOOLEAN :
       \A name \in Range(phony_targets(fuzz_)) :
           executable(app) # name /\ executable(app) # <<".", "/">> \o name

\* sub/all.cc, whose name is a phony target in another directory, has been accepted
C38_Witness ==
    /\ cli.added # <<>>
    /\ cli.added[1].path = f_sub_all /\ cli.added[1].ok
    /\ applications_ = <<f_sub_all>>
    /\ executable(applications_[1]) = <<"s","u","b","/","a","l","l">>


\* C39: while the stack is not empty, a handled flag that is false comes with the state
\* skip: inside an open block a branch can be elected only while the block is skipped
C39_UnhandledIsSkip ==
    (pp.stack_ # <<>> /\ ~pp.if_statement_handled_) => pp.state_ = skip

\* an #elif inside a block has evaluated to skip and left the block unhandled
C39_Witness ==
    /\ last.called /\ last.in.dir = "elif"
    /\ ~last.pre.if_statement_handled_
    /\ pp.stack_ # <<>> /\ ~pp.if_statement_handled_ /\ pp.state_ = skip
    /\ Len(pp.stack_) = 2


----------------------------------------------------------------------------
(* Properties of the scanner: cycles and the recursion limit *)

\* the files a file of the disk leads to: the headers it includes, with their twin sources
IncludedBy(disk, file) ==
    { resolve(q) : q \in QuotedPaths(disk[file]) }
    \cup { resolve(TwinOf(q)) : q \in QuotedPaths(disk[file]) }

RECURSIVE ReachableFrom(_, _, _)
\* the files of the disk reachable from the files of the frontier, those seen included
ReachableFrom(disk, frontier, seen) ==
    LET next == (UNION { IncludedBy(disk, f) : f \in frontier } \cap DOMAIN disk) \ seen
    IN  IF next = {} THEN seen ELSE ReachableFrom(disk, next, seen \cup next)

\* the projects in which at most 128 files, the application counted, are reachable from
\* the application
SmallGraphs ==
    { project.fs : project \in
          { p \in ChainsWithin \cup ChainsBeyond :
                Cardinality(ReachableFrom(p.fs, {f_app}, {f_app})) <= 128 } }

\* C40: where at most 128 distinct files (the application counted) are reachable from the
\* application, with or without cycles among them, parse makes no call of
\* parse_recursive_ at a depth above 128, no file is scanned at a depth above 127, and
\* parse does not fail
C40_CyclesWithinLimit ==
    (fs \in SmallGraphs /\ run.pc \in {"parsing", "failed"}) =>
        /\ call # <<>> => call[1].depth <= 128
        /\ \A k \in DOMAIN frames : frames[k].depth <= 127
        /\ run.pc # "failed"

\* the cycle h1.hh .. h127.hh, h1.hh: the include of h1.hh in h127.hh, a call at depth 128,
\* has returned success
C40_Witness ==
    /\ fs = Chain(max_depth - 1, "back").fs
    /\ fs \in SmallGraphs
    /\ run.pc = "parsing" /\ ret = <<TRUE>>
    /\ Len(frames) = 128 /\ Top.depth = 127 /\ Top.pc = "after_header"
    /\ Top.file_next = include_path_ \o link(1)

====
